---- MODULE Spec2Model ----
(***************************************************************************)
(* Agent Y (Google Docs AI assistant): the interaction log                 *)
(* (MemoryManager), the request dispatcher (AgentController and the        *)
(* processAIRequestEnhanced wrapper), the tools and the provider clients   *)
(* (OpenAIClient, GeminiClient), as state machines.                        *)
(*                                                                         *)
(* The specifications share the variables:                                 *)
(*   SpecMem    - the MemoryManager under a clock that advances            *)
(*   SpecAgent  - request dispatch, tools, the log written by dispatch     *)
(*   SpecClient - the provider clients' configuration and what they return *)
(*   SpecLog     - what the clients and the settings functions log        *)
(*   SpecRegistry - tool registration and executeCommand                   *)
(*   SpecTokens  - token estimates and prompt truncation                   *)
(*   SpecParse   - parsing and classifying the user input                  *)
(*   SpecSubject - the text each tool chooses to operate on                *)
(*   SpecContext - the conversation context built from stored responses   *)
(*   SpecRatio   - the compression ratios a summary reports               *)
(*   SpecFrame   - records of the log under stores, imports and reads     *)
(*   SpecPrompt  - the prompts the tools build                            *)
(*   SpecExtract - the parameter extractors of the tools                  *)
(*   SpecLimit   - isWithinTokenLimits                                    *)
(*   SpecRace    - overlapping executions over one store                  *)
(***************************************************************************)
EXTENDS Integers, Sequences, FiniteSets, TLC

(***************************************************************************)
(* Bounds of the model                                                     *)
(***************************************************************************)
\* config.maxHistoryItems of the MemoryManager under check (default 50):
\* two, so that the order of the entries kept can be observed
MaxHistoryItems == 2
\* config.maxHistoryAge in clock ticks (default 24 hours)
MaxHistoryAge == 1
\* the clock runs over 0..MaxTime: long enough for an entry to expire
MaxTime == MaxHistoryAge + 1
\* entries of one importHistory payload: enough to overflow the ceiling
MaxImport == MaxHistoryItems + 1

VARIABLES
  now,                  \* Date.now(), in ticks
  conversationHistory,  \* MemoryManager.conversationHistory, newest first
  storage,              \* PropertiesService value under config.storageKey
  persistToStorage,     \* config.persistToStorage
  lastOp,               \* "trim" when the last call ended in trimHistory()
  discarded             \* entries the count ceiling cut off in the last call

memVars == <<now, conversationHistory, storage, persistToStorage,
             lastOp, discarded>>

VARIABLES
  tools,              \* names registered in AgentController.tools
  hasApiClient,       \* this.apiClient was set
  hasMemoryManager,   \* this.memoryManager was set
  hasContextManager,  \* this.contextManager was set
  pc,                 \* where the in-flight processRequest is suspended
  request,            \* the parsed request and its document context
  toolResult,         \* what tool.execute returned for the in-flight request
  response,           \* what the last processRequest handed to its caller
  apiCalls,           \* generateResponse calls made for the last request
  dispatched,         \* requests that have completed
  raised,             \* the error the last request's catch block received
  escaped             \* an exception left processRequest

VARIABLES
  uncallable,    \* names in the registry whose entry has no callable execute
  regOutcome     \* how the last registration ended: "none", "ok", "threw",
                 \* or "aborted" (initializeAIAgent rethrew)

agentVars == <<tools, hasApiClient, hasMemoryManager, hasContextManager, pc,
               request, toolResult, response, apiCalls, dispatched, raised,
               escaped, uncallable, regOutcome>>

VARIABLES
  provider,      \* the class of the client: "openai" or "gemini"
  constructed,   \* a client instance exists
  config,        \* the client's this.config (apiKey, model)
  fetchedWith,   \* <<provider, key>> of the latest UrlFetchApp.fetch, or <<>>
  lastThrew,     \* the last client call threw
  agentConfig,   \* AgentController.config
  returned,      \* the strings inside the last value handed to the caller
  logged,        \* the strings inside the arguments of the last call's
                 \* console.log / console.error
  userSettings   \* the 'ai_agent_settings' user property

VARIABLES
  prompt,        \* the prompt at hand: its length and its truncation markers
  options,       \* {maxTokens, reservedTokens} of the call, 0 for absent
  tokenModel,    \* config.model of the client
  truncated,     \* what the last truncation returned
  sent,          \* the prompt of the last request handed to generateResponse
  tokenOp        \* "none", "truncatePrompt", "truncateToTokenLimit", "send"

tokenVars == <<prompt, options, tokenModel, truncated, sent, tokenOp>>

VARIABLES
  input,         \* the raw user input, a sequence of input tokens
  parsed,        \* what parseUserInput returned for it
  classified,    \* what inferCommand, parseCommand, analyzeQueryType returned
  parseOp        \* "none", "parseUserInput", "classify"

parseVars == <<input, parsed, classified, parseOp>>

VARIABLES
  tail,          \* request.parameters: the text after the command
  selection,     \* context.selection
  content,       \* context.content
  subjectTool,   \* the tool that chose its text last, or "none"
  subject        \* the text that tool chose to operate on

subjectVars == <<tail, selection, content, subjectTool, subject>>

VARIABLES
  responses,     \* the aiResponse of each record of the log, newest first
  transcript,    \* the lines of the last getConversationContext result
  contextOp      \* "none", "store", "context"

contextVars == <<responses, transcript, contextOp>>

VARIABLES
  originalText,  \* the text summarized: the lengths of its words
  summaryText,   \* the summary the provider returned, trimmed: likewise
  summarized     \* what execute returned about them, or NoSummary

ratioVars == <<originalText, summaryText, summarized>>

VARIABLES
  records,       \* conversationHistory with the records' ids and fields
  handedOut,     \* the array the last read returned
  nextId,        \* the ids generateId has issued so far, plus one
  frameOp        \* the last operation on the records

frameVars == <<records, handedOut, nextId, frameOp>>

VARIABLES
  builder,       \* the prompt builder that ran last, or "none"
  built          \* the prompt it returned, as the sequence of its parts

promptVars == <<builder, built>>

VARIABLES
  params,        \* request.parameters, lower-cased
  extractor,     \* the extractor that ran last, or "none"
  extracted,     \* what it returned for params
  again          \* what it returns for that value

extractVars == <<params, extractor, extracted, again>>

VARIABLES
  limitCall,     \* the arguments of the last isWithinTokenLimits call
  within         \* what it returned

limitVars == <<limitCall, within>>

VARIABLES
  persisted,     \* the history persisted under the storage key
  execPc,        \* where each execution of processAIRequestEnhanced stands
  execHistory,   \* conversationHistory of the MemoryManager of each execution
  execResult     \* what processRequest returned in each execution

raceVars == <<persisted, execPc, execHistory, execResult>>

\* the variables of the parts of the model that follow the tools' texts
laterVars == <<contextVars, ratioVars, frameVars, promptVars, extractVars,
               limitVars, raceVars>>

clientVars == <<provider, constructed, config, fetchedWith, lastThrew,
                agentConfig, returned, logged, userSettings, tokenVars,
                parseVars, subjectVars, laterVars>>

DocumentIds == {"d1", "d2"}

\* the property before anything was saved (getProperty returns null), and
\* the property holding a saved history
NoStorage == [stored |-> FALSE, history |-> <<>>]
Stored(h) == [stored |-> TRUE, history |-> h]

(***************************************************************************)
(* Tool results and what the dispatcher returns                            *)
(***************************************************************************)
\* {success: false, error: 'No text available to ...'}
NoTextResult == [shape |-> "object", success |-> "false", error |-> "no_text"]
\* {success: false, error: '<Tool> failed: <message>'}
FailedResult == [shape |-> "object", success |-> "false", error |-> "failed"]
\* {success: true, result, metadata}
SuccessResult == [shape |-> "object", success |-> "true", error |-> "none"]
\* {result, action, timestamp} of the general/generate/translate/format tools
PlainResult == [shape |-> "object", success |-> "absent", error |-> "none"]
\* the bare string the built-in default tool returns
StringResult == [shape |-> "string", success |-> "absent", error |-> "none"]
\* a registered tool that returns nothing
NullResult == [shape |-> "null", success |-> "absent", error |-> "none"]
\* the still-pending Promise of an async call that was not awaited
PendingPromise == [shape |-> "promise", success |-> "absent", error |-> "none"]

(***************************************************************************)
(* MemoryManager                                                           *)
(***************************************************************************)
\* new Date(item.timestamp) >= cutoffDate, cutoff = Date.now() - maxHistoryAge
NotExpired(item, t) == item.timestamp >= t - MaxHistoryAge

\* first half of trimHistory: drop the items older than the cutoff
AgeFiltered(h, t) == SelectSeq(h, LAMBDA item : NotExpired(item, t))

\* a trimHistory that forgets the count ceiling
TrimHistoryNoCount(h, t) == AgeFiltered(h, t)

\* a trimHistory that forgets the age ceiling
TrimHistoryNoAge(h, t) ==
  IF Len(h) > MaxHistoryItems THEN SubSeq(h, 1, MaxHistoryItems) ELSE h

\* trimHistory(): age filter, then slice(0, maxHistoryItems)
TrimHistory(h, t) ==
  LET f == AgeFiltered(h, t)
  IN  IF Len(f) > MaxHistoryItems THEN SubSeq(f, 1, MaxHistoryItems) ELSE f

\* what slice(0, maxHistoryItems) cut off in trimHistory
TrimDiscarded(h, t) ==
  LET f == AgeFiltered(h, t)
  IN  IF Len(f) > MaxHistoryItems
        THEN SubSeq(f, MaxHistoryItems + 1, Len(f))
        ELSE <<>>

\* the interaction object storeInteraction builds
Interaction(t, aiResponse, doc) ==
  [timestamp |-> t, aiResponse |-> aiResponse, documentId |-> doc]

\* saveToStorage(): setProperty(storageKey, JSON.stringify(data))
SaveToStorage(h) == IF persistToStorage THEN Stored(h) ELSE storage

\* Array.prototype.sort with (a, b) => b.timestamp - a.timestamp: stable,
\* newest first
RECURSIVE InsertSorted(_, _)
InsertSorted(item, sorted) ==
  IF sorted = <<>> THEN <<item>>
  ELSE IF Head(sorted).timestamp >= item.timestamp
         THEN <<Head(sorted)>> \o InsertSorted(item, Tail(sorted))
         ELSE <<item>> \o sorted

RECURSIVE SortNewestFirst(_)
SortNewestFirst(h) ==
  IF h = <<>> THEN <<>>
  ELSE InsertSorted(h[Len(h)], SortNewestFirst(SubSeq(h, 1, Len(h) - 1)))

\* importHistory keeps the entries that carry userInput, aiResponse, timestamp
ValidImport(item) == item.timestamp # -1

\* getRecentInteractions(count): conversationHistory.slice(0, count)
GetRecentInteractions(count) ==
  SubSeq(conversationHistory, 1,
         IF count < Len(conversationHistory) THEN count
                                             ELSE Len(conversationHistory))

\* storeInteraction(userInput, aiResponse, context): unshift, trim, save
StoreInteractionEffect(aiResponse, doc) ==
  LET h == <<Interaction(now, aiResponse, doc)>> \o conversationHistory
  IN  /\ conversationHistory' = TrimHistory(h, now)
      /\ discarded' = TrimDiscarded(h, now)
      /\ storage' = SaveToStorage(TrimHistory(h, now))

StoreInteraction ==
  /\ \E doc \in DocumentIds : StoreInteractionEffect(SuccessResult, doc)
  /\ lastOp' = "trim"
  /\ UNCHANGED <<now, persistToStorage>>

\* payloads of importHistory: timestamp -1 stands for an entry without one,
\* timestamps may lie in the future of the clock
ImportEntries ==
  { Interaction(t, SuccessResult, "d1") : t \in -1 .. MaxTime + 1 }

\* the entries of a payload differ in their timestamps only, and importHistory
\* sorts them: payloads listed oldest first stand for all their orders
ImportPayloads ==
  { d \in UNION { [1 .. n -> ImportEntries] : n \in 0 .. MaxImport } :
      \A i \in 1 .. Len(d) - 1 : d[i].timestamp <= d[i + 1].timestamp }

\* importHistory(data, options): optional replace, push valid, sort, trim, save
ImportHistory ==
  /\ \E data \in ImportPayloads, replace \in BOOLEAN :
       LET base == IF replace THEN <<>> ELSE conversationHistory
           h    == SortNewestFirst(base \o SelectSeq(data, ValidImport))
       IN  /\ conversationHistory' = TrimHistory(h, now)
           /\ discarded' = TrimDiscarded(h, now)
           /\ storage' = SaveToStorage(TrimHistory(h, now))
  /\ lastOp' = "trim"
  /\ UNCHANGED <<now, persistToStorage>>

\* clearHistory(options): olderThan / documentId / everything; then save
ClearHistory ==
  /\ \E h \in
         { SelectSeq(conversationHistory,
                     LAMBDA item : item.timestamp >= cutoff) :
             cutoff \in 1 .. MaxTime + 1 }
         \cup
         { SelectSeq(conversationHistory,
                     LAMBDA item : item.documentId # doc) : doc \in DocumentIds }
         \cup {<<>>} :
       /\ conversationHistory' = h
       /\ storage' = SaveToStorage(h)
  /\ lastOp' = "other"
  /\ discarded' = <<>>
  /\ UNCHANGED <<now, persistToStorage>>

\* loadFromStorage(): when a value is stored, take it and trim it
LoadFromStorage ==
  /\ IF storage.stored
       THEN /\ conversationHistory' = TrimHistory(storage.history, now)
            /\ discarded' = TrimDiscarded(storage.history, now)
            /\ lastOp' = "trim"
       ELSE /\ UNCHANGED conversationHistory
            /\ discarded' = <<>>
            /\ lastOp' = "other"
  /\ UNCHANGED <<now, storage, persistToStorage>>

\* the clock advances between calls
Tick ==
  /\ now < MaxTime
  /\ now' = now + 1
  /\ lastOp' = "other"
  /\ discarded' = <<>>
  /\ UNCHANGED <<conversationHistory, storage, persistToStorage>>

\* new MemoryManager(config): empty history, then loadFromStorage()
InitMem ==
  /\ now = 0
  /\ conversationHistory = <<>>
  /\ storage = NoStorage
  /\ persistToStorage \in BOOLEAN
  /\ lastOp = "other"
  /\ discarded = <<>>

(***************************************************************************)
(* Tools                                                                   *)
(***************************************************************************)
\* a text as the tools test it: '' / only whitespace / with content
TextKinds == {"empty", "blank", "text"}

\* names registerAllTools registers
RegisteredByAll ==
  {"summarize", "rewrite", "explain", "general", "generate", "translate",
   "format"}

\* the tools whose task needs a subject text
SubjectTextTools == {"summarize", "rewrite", "explain", "translate", "format"}

\* commands parseUserInput can produce: the inferCommand table, its default,
\* and a literal taken from an explicit /command
Commands == RegisteredByAll \cup {"analyze", "custom"}

\* what a call of execute did: returned a value or threw, after `calls`
\* calls of apiClient.generateResponse
Returned(value, calls) ==
  [threw |-> FALSE, value |-> value, calls |-> calls, thrown |-> "none"]
\* throw new Error(message)
Threw(calls) ==
  [threw |-> TRUE, value |-> NullResult, calls |-> calls,
   thrown |-> "tool threw"]
\* throw null / throw undefined: a thrown value that is no object
ThrewNull ==
  [threw |-> TRUE, value |-> NullResult, calls |-> 0, thrown |-> "null"]

\* getTextToSummarize: 'summarize: "..."' override, selection, full content
GetTextToSummarize(override, ctx) ==
  IF override THEN "text"
  ELSE IF ctx.selection = "text" THEN "text" ELSE ctx.content

\* getTextToRewrite / getTextToExplain: quoted or what-is override, selection
GetTextFromSelection(override, ctx) ==
  IF override THEN "text"
  ELSE IF ctx.selection = "text" THEN "text" ELSE "empty"

\* UrlFetchApp.fetch calls of one generateResponse call: makeAPIRequest
\* fetches once and rethrows a non-200 answer, a transport exception or an
\* unparsable body; generateResponse rethrows in turn
HttpAttemptsWithRetry(api) == IF api = "throws" THEN 2 ELSE 1

HttpAttempts(api) == 1

\* execute of SummarizeTool, RewriteTool, ExplainTool: validate, call, catch
ValidatingExecute(text, api) ==
  IF text # "text" THEN Returned(NoTextResult, 0)
  ELSE IF api = "throws" THEN Returned(FailedResult, HttpAttempts(api))
  ELSE Returned(SuccessResult, HttpAttempts(api))

\* execute of the closures of createGeneralTool, createGenerateTool,
\* createTranslateTool, createFormatTool: build the prompt, call, wrap
PromptOnlyExecute(api) ==
  IF api = "throws" THEN Threw(HttpAttempts(api))
  ELSE Returned(PlainResult, HttpAttempts(api))

\* execute of createDefaultTool: the provider's string, unwrapped
DefaultExecute(api) ==
  IF api = "throws" THEN Threw(HttpAttempts(api))
  ELSE Returned(StringResult, HttpAttempts(api))

\* a tool registered by the embedding code: any behaviour
CustomBehaviours == {"returns", "returnsNothing", "throws", "throwsNull"}
CustomExecute(behaviour) ==
  CASE behaviour = "returns" -> Returned(SuccessResult, 0)
    [] behaviour = "returnsNothing" -> Returned(NullResult, 0)
    [] behaviour = "throwsNull" -> ThrewNull
    [] OTHER -> Threw(0)

\* tool.execute({request, context, apiClient, config})
ToolExecute(tool, override, ctx, api, behaviour) ==
  CASE tool = "summarize" ->
         ValidatingExecute(GetTextToSummarize(override, ctx), api)
    [] tool \in {"rewrite", "explain"} ->
         ValidatingExecute(GetTextFromSelection(override, ctx), api)
    [] tool \in {"general", "generate", "translate", "format"} ->
         PromptOnlyExecute(api)
    [] tool = "custom" -> CustomExecute(behaviour)
    [] OTHER -> DefaultExecute(api)

(***************************************************************************)
(* AgentController                                                         *)
(***************************************************************************)
NoRequest ==
  [entry |-> "none", command |-> "none", override |-> FALSE,
   selection |-> "empty", content |-> "empty"]

NoResponse == [success |-> FALSE, error |-> "none", result |-> NullResult,
               settled |-> FALSE]

\* selectTool: the exact name, else 'general', else createDefaultTool()
SelectTool(command) ==
  IF command \in tools THEN command
  ELSE IF "general" \in tools THEN "general" ELSE "default"

\* catch (error) of processRequest: {success: false, error: error.message};
\* reading .message of a thrown null is itself a TypeError, raised inside the
\* catch block, so the returned promise rejects
CatchError(message) ==
  IF message = "null"
    THEN [escaped |-> TRUE, response |-> NoResponse]
    ELSE [escaped |-> FALSE,
          response |-> [success |-> FALSE, error |-> message,
                        result |-> NullResult, settled |-> TRUE]]

\* the return of processRequest's try block: {success: true, result, tool}
WrapResult(result) ==
  [success |-> TRUE, error |-> "none", result |-> result, settled |-> TRUE]

\* the request ends in the catch block
EndInCatch(message, calls) ==
  /\ pc' = "idle"
  /\ request' = NoRequest
  /\ toolResult' = NullResult
  /\ response' = CatchError(message).response
  /\ escaped' = CatchError(message).escaped
  /\ raised' = message
  /\ apiCalls' = calls
  /\ dispatched' = dispatched + 1

\* processRequest(userInput, context) called and awaited by the embedding
\* code: parseUserInput, then suspended in await getDocumentContext
ProcessRequest ==
  /\ pc = "idle"
  /\ dispatched < MaxHistoryItems + 1
  /\ \E command \in Commands, override \in BOOLEAN, isString \in BOOLEAN :
       IF isString
         THEN /\ pc' = "context"
              /\ request' = [NoRequest EXCEPT !.entry = "processRequest",
                                             !.command = command,
                                             !.override = override]
              /\ toolResult' = NullResult
              /\ response' = NoResponse
              /\ raised' = "none"
              /\ apiCalls' = 0
              /\ UNCHANGED <<dispatched, escaped>>
         ELSE \* input.trim is not a function
              EndInCatch("TypeError", 0)
  /\ UNCHANGED <<memVars, tools, hasApiClient, hasMemoryManager,
                 hasContextManager>>

\* getDocumentContext: the context manager's answer, or the empty context
GetDocumentContext ==
  /\ pc = "context"
  /\ IF hasContextManager
       THEN \/ \E sel \in TextKinds, doc \in TextKinds :
                 /\ request' = [request EXCEPT !.selection = sel,
                                                !.content = doc]
                 /\ pc' = "execute"
                 /\ UNCHANGED <<toolResult, response, apiCalls, dispatched,
                                raised, escaped>>
            \/ \* a context manager whose getContext rejects
               EndInCatch("context failed", 0)
       ELSE /\ pc' = "execute"
            /\ UNCHANGED <<request, toolResult, response, apiCalls,
                           dispatched, raised, escaped>>
  /\ UNCHANGED <<memVars, tools, hasApiClient, hasMemoryManager,
                 hasContextManager>>

\* selectTool and executeTool
ExecuteTool ==
  /\ pc = "execute"
  /\ IF ~hasApiClient
       THEN EndInCatch("API client not configured", 0)
       ELSE \E api \in {"ok", "throws"}, behaviour \in CustomBehaviours :
              LET done == ToolExecute(SelectTool(request.command),
                                      request.override, request, api,
                                      behaviour)
              IN  IF done.threw
                    THEN EndInCatch(done.thrown, done.calls)
                    ELSE /\ pc' = "store"
                         /\ toolResult' = done.value
                         /\ apiCalls' = done.calls
                         /\ UNCHANGED <<request, response, dispatched,
                                        raised, escaped>>
  /\ UNCHANGED <<memVars, tools, hasApiClient, hasMemoryManager,
                 hasContextManager>>

\* await memoryManager.storeInteraction(userInput, result); return
StoreAndReturn ==
  /\ pc = "store"
  /\ IF hasMemoryManager /\ toolResult = NullResult
       THEN \* aiResponse.tool on undefined: storeInteraction throws
            /\ EndInCatch("TypeError", apiCalls)
            /\ UNCHANGED memVars
       ELSE /\ IF hasMemoryManager
                 THEN /\ StoreInteractionEffect(toolResult, "")
                      /\ lastOp' = "trim"
                      /\ UNCHANGED <<now, persistToStorage>>
                 ELSE UNCHANGED memVars
            /\ pc' = "idle"
            /\ request' = NoRequest
            /\ response' = WrapResult(toolResult)
            /\ dispatched' = dispatched + 1
            /\ UNCHANGED <<toolResult, apiCalls, raised, escaped>>
  /\ UNCHANGED <<tools, hasApiClient, hasMemoryManager, hasContextManager>>

\* catch (error) of processAIRequestEnhanced: {success: false, error}
EnhancedCatch(message) ==
  [success |-> FALSE, error |-> message, result |-> NullResult,
   settled |-> TRUE]

\* processAIRequestEnhanced(command, userInput, documentContext): builds the
\* agent system anew (initializeAIAgent: settings, a MemoryManager loaded from
\* storage, an OpenAIClient that validates the stored key, registerAllTools),
\* calls processRequest without awaiting it, stores the interaction with the
\* value it got back and returns that value
ProcessAIRequestEnhanced ==
  /\ pc = "idle"
  /\ dispatched < MaxHistoryItems + 1
  /\ \E keyValid \in BOOLEAN, command \in Commands, override \in BOOLEAN :
       IF ~keyValid
         THEN \* new OpenAIClient throws: 'Agent initialization failed: ...'
              /\ response' = EnhancedCatch("initialization failed")
              /\ raised' = "initialization failed"
              /\ request' = NoRequest
              /\ toolResult' = NullResult
              /\ apiCalls' = 0
              /\ dispatched' = dispatched + 1
              /\ UNCHANGED <<memVars, tools, hasApiClient, hasMemoryManager,
                             hasContextManager, pc, escaped>>
         ELSE LET loaded == IF storage.stored
                              THEN TrimHistory(storage.history, now)
                              ELSE <<>>
                  h == <<Interaction(now, PendingPromise, "d1")>> \o loaded
              IN  /\ tools' = RegisteredByAll
                  /\ hasApiClient' = TRUE
                  /\ hasMemoryManager' = TRUE
                  /\ hasContextManager' = TRUE
                  /\ conversationHistory' = TrimHistory(h, now)
                  /\ discarded' = TrimDiscarded(h, now)
                  /\ storage' = SaveToStorage(TrimHistory(h, now))
                  /\ lastOp' = "trim"
                  /\ pc' = "context"
                  /\ request' = [NoRequest EXCEPT
                                   !.entry = "processAIRequestEnhanced",
                                   !.command = command,
                                   !.override = override]
                  /\ toolResult' = NullResult
                  /\ response' = NoResponse
                  /\ raised' = "none"
                  /\ apiCalls' = 0
                  /\ UNCHANGED <<now, persistToStorage, dispatched, escaped>>

\* no request in flight, nothing returned yet
NoRequestYet ==
  /\ pc = "idle"
  /\ request = NoRequest
  /\ toolResult = NullResult
  /\ response = NoResponse
  /\ apiCalls = 0
  /\ dispatched = 0
  /\ raised = "none"
  /\ escaped = FALSE
  /\ uncallable = {}
  /\ regOutcome = "none"

\* new AgentController(config) followed by any of setContextManager,
\* setMemoryManager, setApiClient, and no tools or registerAllTools plus a
\* tool of the embedding code
InitAgent ==
  /\ InitMem
  /\ tools \in {{}, RegisteredByAll \cup {"custom"}}
  /\ hasApiClient \in BOOLEAN
  /\ hasMemoryManager \in BOOLEAN
  /\ hasContextManager \in BOOLEAN
  /\ NoRequestYet

(***************************************************************************)
(* Tool registry and executeCommand                                        *)
(***************************************************************************)
\* the objects handed to registerTool, by their execute member
ToolKinds == {"function", "missing", "notFunction"}

\* names the embedding code registers tools under
RegistrableNames == {"summarize", "general", "custom"}

\* registerTool's check: tool.execute && typeof tool.execute === 'function'
HasExecuteUnchecked(kind) == TRUE

HasExecute(kind) == kind = "function"

\* registerTool(name, tool): throw, or this.tools.set(name, {...})
RegisterTool ==
  /\ pc = "idle"
  /\ \E name \in RegistrableNames, kind \in ToolKinds :
       IF HasExecute(kind)
         THEN /\ tools' = tools \cup {name}
              /\ uncallable' = IF kind = "function"
                                 THEN uncallable \ {name}
                                 ELSE uncallable \cup {name}
              /\ regOutcome' = "ok"
         ELSE /\ regOutcome' = "threw"
              /\ UNCHANGED <<tools, uncallable>>
  /\ UNCHANGED <<memVars, hasApiClient, hasMemoryManager, hasContextManager,
                 pc, request, toolResult, response, apiCalls, dispatched,
                 raised, escaped>>

\* initializeAIAgent: new AgentController, the three setters, then
\* registerAllTools(agent) inside the try; a throwing registerTool is
\* rethrown as 'Agent initialization failed: ...' and no system is returned
RegisterAllTools ==
  /\ pc = "idle"
  /\ \E kinds \in [{"summarize", "general"} -> ToolKinds] :
       IF \A n \in DOMAIN kinds : HasExecute(kinds[n])
         THEN /\ tools' = RegisteredByAll
              /\ uncallable' = { n \in DOMAIN kinds : kinds[n] # "function" }
              /\ hasApiClient' = TRUE
              /\ hasMemoryManager' = TRUE
              /\ hasContextManager' = TRUE
              /\ regOutcome' = "ok"
         ELSE /\ regOutcome' = "aborted"
              /\ UNCHANGED <<tools, uncallable, hasApiClient,
                             hasMemoryManager, hasContextManager>>
  /\ UNCHANGED <<memVars, pc, request, toolResult, response, apiCalls,
                 dispatched, raised, escaped>>

\* the tool names parseCommand returns: its pattern table and its default
ParseCommandTools ==
  {"summarize", "rewrite", "explain", "generate", "translate", "format"}

\* tool.execute(executionParams) of executeCommand, whose parameters carry
\* command, context, memory, config, apiClient and no request: the tools of
\* registerAllTools fail on request.parameters inside their own try/catch
ExecuteWithoutRequest(behaviour) ==
  IF behaviour = "registerAllTools" THEN Returned(FailedResult, 0)
  ELSE CustomExecute(behaviour)

\* executeCommand(command, options): parseCommand, this.tools.get(toolName)
\* with no fallback, getCurrentContext / getRecentMemory (which ContextManager
\* and MemoryManager do not have), tool.execute, catch
ExecuteCommand ==
  /\ pc = "idle"
  /\ dispatched < MaxHistoryItems + 1
  /\ \E toolName \in ParseCommandTools,
        behaviour \in CustomBehaviours \cup {"registerAllTools"} :
       LET done == ExecuteWithoutRequest(behaviour)
       IN  IF toolName \notin tools
             THEN EndInCatch("tool not found", 0)
           ELSE IF hasContextManager \/ hasMemoryManager
             THEN EndInCatch("TypeError", 0)
           ELSE IF done.threw
             THEN EndInCatch(done.thrown, done.calls)
           ELSE /\ pc' = "idle"
                /\ request' = NoRequest
                /\ toolResult' = done.value
                /\ response' = WrapResult(done.value)
                /\ raised' = "none"
                /\ apiCalls' = done.calls
                /\ dispatched' = dispatched + 1
                /\ escaped' = escaped
  /\ UNCHANGED <<memVars, tools, hasApiClient, hasMemoryManager,
                 hasContextManager, uncallable, regOutcome>>

(***************************************************************************)
(* Provider clients (OpenAIClient, GeminiClient) and introspection         *)
(***************************************************************************)
Providers == {"openai", "gemini"}

\* API key values: none, one without the 'sk-' prefix, a well-formed one
Keys == {"", "malformed", "sk-A"}

\* every key value that is a secret
SecretKeys == Keys \ {""}

Models == {"gpt-4", "gpt-3.5-turbo", "gemini-1.5-flash"}

\* getAvailableModels()
AvailableModels(p) ==
  IF p = "openai" THEN {"gpt-4", "gpt-3.5-turbo"} ELSE {"gemini-1.5-flash"}

\* config.model || default of the constructors
DefaultModel(p) == IF p = "openai" THEN "gpt-4" ELSE "gemini-1.5-flash"

\* validateConfig() passes: a key is present, and for OpenAI starts with 'sk-'
ValidKey(p, key) ==
  IF p = "openai" THEN key = "sk-A" ELSE key # ""

\* the strings an object holds, nested objects included
Atoms(obj) == { obj[f] : f \in DOMAIN obj }

\* {...this.config, ...newConfig}
Merge(old, new) ==
  [f \in DOMAIN old \cup DOMAIN new |->
     IF f \in DOMAIN new THEN new[f] ELSE old[f]]

\* getConfig(): const {apiKey, ...safeConfig} = this.config, plus apiKeySet
GetConfigValue(cfg) ==
  [f \in (DOMAIN cfg \ {"apiKey"}) \cup {"apiKeySet"} |->
     IF f = "apiKeySet"
       THEN (IF cfg["apiKey"] # "" THEN "true" ELSE "false")
       ELSE cfg[f]]

\* new OpenAIClient(config) / new GeminiClient(config): validateConfig() at
\* the end of the constructor; a throwing constructor yields no instance
Construct ==
  /\ \E p \in Providers, key \in Keys :
       IF ValidKey(p, key)
         THEN /\ provider' = p
              /\ constructed' = TRUE
              /\ config' = [apiKey |-> key, model |-> DefaultModel(p)]
              /\ lastThrew' = FALSE
         ELSE /\ lastThrew' = TRUE
              /\ UNCHANGED <<provider, constructed, config>>
  /\ UNCHANGED <<fetchedWith, agentConfig, returned>>

\* updateApiKey(apiKey): assign, then validateConfig()
UpdateApiKey ==
  /\ constructed
  /\ \E key \in Keys :
       /\ config' = [config EXCEPT !["apiKey"] = key]
       /\ lastThrew' = ~ValidKey(provider, key)
  /\ UNCHANGED <<provider, constructed, fetchedWith, agentConfig, returned>>

\* updateModel(model): rejected unless available, then assigned
UpdateModel ==
  /\ constructed
  /\ \E m \in Models :
       IF m \in AvailableModels(provider)
         THEN /\ config' = [config EXCEPT !["model"] = m]
              /\ lastThrew' = FALSE
         ELSE /\ lastThrew' = TRUE
              /\ UNCHANGED config
  /\ UNCHANGED <<provider, constructed, fetchedWith, agentConfig, returned>>

\* objects passed to updateConfig
NewConfigs ==
  { [apiKey |-> k] : k \in Keys } \cup { [model |-> m] : m \in Models }
  \cup { [apiKey |-> k, model |-> m] : k \in Keys, m \in Models }

\* updateConfig(newConfig): merge, then validateConfig()
UpdateConfig ==
  /\ constructed
  /\ \E new \in NewConfigs :
       /\ config' = Merge(config, new)
       /\ lastThrew' = ~ValidKey(provider, Merge(config, new)["apiKey"])
  /\ UNCHANGED <<provider, constructed, fetchedWith, agentConfig, returned>>

\* the URL makeAPIRequest fetches: GeminiClient puts the key in the query
\* string, OpenAIClient sends it in the Authorization header
RequestUrl(p, cfg) ==
  IF p = "gemini" THEN {"baseURL/models/gemini-1.5-flash", cfg["apiKey"]}
  ELSE {"baseURL/chat/completions"}

\* what generateResponse and makeAPIRequest pass to console.log/console.error:
\* GeminiClient logs the URL, the payload and the response, and on failure
\* the error, the URL and the options; OpenAIClient logs only the errors
RequestLog(p, cfg, http) ==
  IF p = "gemini"
    THEN RequestUrl(p, cfg) \cup {"payload", "response"}
           \cup (IF http = "200" THEN {} ELSE {"API request failed"})
    ELSE IF http = "200" THEN {} ELSE {"API request failed"}

\* generateResponse(prompt, options) -> makeAPIRequest: one fetch with the
\* configured key; a non-200 answer or a transport exception is rethrown as
\* '<Provider> API error: API request failed: HTTP <code>: <body>'
GenerateResponse ==
  /\ constructed
  /\ fetchedWith' = <<provider, config["apiKey"]>>
  /\ \E http \in {"200", "500"} :
       /\ logged' = RequestLog(provider, config, http)
       /\ IF http = "200"
            THEN /\ returned' = {"generated text"}
                 /\ lastThrew' = FALSE
            ELSE /\ returned' = {"API error: API request failed: HTTP 500: body"}
                 /\ lastThrew' = TRUE
  /\ UNCHANGED <<provider, constructed, config, agentConfig>>

\* getConfig()
GetConfig ==
  /\ constructed
  /\ returned' = Atoms(GetConfigValue(config))
  /\ lastThrew' = FALSE
  /\ UNCHANGED <<provider, constructed, config, fetchedWith, agentConfig>>

\* AgentController constructor: {maxTokens, temperature, model, ...config}
AgentControllerConfig(cfg) == Merge([model |-> "gpt-4"], cfg)

\* initializeAIAgent(config): agentConfig = {...getUserSettings(), ...config},
\* new OpenAIClient({apiKey: agentConfig.apiKey, ...}),
\* new AgentController(agentConfig); returns {agent, contextManager,
\* memoryManager, apiClient, config: agentConfig}
InitializeAIAgent ==
  /\ \E key \in Keys, m \in AvailableModels("openai") :
       LET settings == [apiKey |-> key, model |-> m]
       IN  IF ValidKey("openai", key)
             THEN /\ provider' = "openai"
                  /\ constructed' = TRUE
                  /\ config' = settings
                  /\ agentConfig' = AgentControllerConfig(settings)
                  /\ returned' = Atoms(settings) \cup Atoms(settings)
                                   \cup Atoms(AgentControllerConfig(settings))
                  /\ lastThrew' = FALSE
             ELSE /\ returned' = {"Agent initialization failed"}
                  /\ lastThrew' = TRUE
                  /\ UNCHANGED <<provider, constructed, config, agentConfig>>
  /\ UNCHANGED fetchedWith

\* AgentController.getStatus(): {toolsRegistered, availableTools,
\* hasContextManager, hasMemoryManager, hasApiClient, config: this.config}
GetStatus ==
  /\ returned' = {"toolsRegistered", "availableTools"} \cup Atoms(agentConfig)
  /\ lastThrew' = FALSE
  /\ UNCHANGED <<provider, constructed, config, fetchedWith, agentConfig>>

(***************************************************************************)
(* Token estimation and truncation                                         *)
(***************************************************************************)
\* Math.ceil(text.length / 4)
CharsPerToken == 4
\* contextLimit of OpenAIClient for a model name containing 'gpt-4'
Gpt4ContextLimit == 8192
\* contextLimit of OpenAIClient for the other models
Gpt35ContextLimit == 4096
\* contextLimit of GeminiClient
GeminiContextLimit == 30000
\* options.reservedTokens || 500
DefaultReservedTokens == 500
\* config.maxTokens || 4000
DefaultMaxTokens == 4000
\* '...'
MarkerLength == 3
\* '... [truncated]'
TruncatedMarkerLength == 15
\* substring(0, maxChars - 100)
TruncationBuffer == 100

\* longest of the short prompts, and the widest overshoot of a threshold
MaxPromptLen == 9

\* a string by its length and the number of truncation markers it ends in
Prompt(len, markers) == [len |-> len, markers |-> markers]

NoPrompt == Prompt(0, 0)

\* the maxTokens and reservedTokens a caller passes (0: not passed)
OptionSets ==
  { [maxTokens |-> mt, reservedTokens |-> rt] :
      mt \in {0, 2, 26}, rt \in {0, 1} }

\* String.prototype.includes
StringIncludes(text, keyword) ==
  \E i \in 1 .. Len(text) - Len(keyword) + 1 :
    SubSeq(text, i, i + Len(keyword) - 1) = keyword

\* the context ceiling of the client for its model:
\* this.config.model.includes('gpt-4') ? 8192 : 4096, and 30000 in GeminiClient
ContextLimit(m) ==
  IF m = "gemini-1.5-flash" THEN GeminiContextLimit
  ELSE IF StringIncludes(m, "gpt-4") THEN Gpt4ContextLimit
  ELSE Gpt35ContextLimit

\* options.maxTokens || this.config.maxTokens
EffectiveMaxTokens(o) ==
  IF o.maxTokens = 0 THEN DefaultMaxTokens ELSE o.maxTokens

\* options.reservedTokens || 500
EffectiveReserved(o) ==
  IF o.reservedTokens = 0 THEN DefaultReservedTokens ELSE o.reservedTokens

\* an estimateTokenCount that rounds down
EstimateTokenCountFloor(p) == p.len \div CharsPerToken

\* estimateTokenCount(text)
EstimateTokenCount(p) == (p.len + CharsPerToken - 1) \div CharsPerToken

\* isWithinTokenLimits(prompt, options)
IsWithinTokenLimits(p, o, m) ==
  EstimateTokenCount(p) + EffectiveMaxTokens(o) <= ContextLimit(m)

\* text.substring(0, n): n below 0 counts as 0, n beyond the end as the end;
\* a cut inside the text removes the markers it ends in
Substring(p, n) ==
  LET end == IF n < 0 THEN 0 ELSE IF n > p.len THEN p.len ELSE n
  IN  Prompt(end, IF end = p.len THEN p.markers ELSE 0)

\* text + marker
AppendMarker(p, markerLength) == Prompt(p.len + markerLength, p.markers + 1)

\* maxInputChars of truncatePrompt
MaxInputChars(o, m) ==
  (ContextLimit(m) - EffectiveMaxTokens(o) - EffectiveReserved(o))
    * CharsPerToken

\* truncatePrompt(prompt, options)
TruncatePrompt(p, o, m) ==
  IF p.len <= MaxInputChars(o, m) THEN p
  ELSE AppendMarker(Substring(p, MaxInputChars(o, m)), MarkerLength)

\* exceedsTokenLimit(text, maxTokens)
ExceedsTokenLimit(p, limit) == EstimateTokenCount(p) > limit

\* truncateToTokenLimit(text, maxTokens)
TruncateToTokenLimit(p, o) ==
  LET limit == EffectiveMaxTokens(o)
  IN  IF ~ExceedsTokenLimit(p, limit) THEN p
      ELSE AppendMarker(
             Substring(p, limit * CharsPerToken - TruncationBuffer),
             TruncatedMarkerLength)

\* a length is a possible length of a string
Clip(n) == IF n < 0 THEN 0 ELSE n

\* prompt lengths: short ones, and ones just beyond each threshold of the
\* truncation functions for the options and model at hand
PromptLengths(o, m) ==
  (0 .. MaxPromptLen)
  \cup { Clip(MaxInputChars(o, m)) + d : d \in 0 .. MaxPromptLen }
  \cup { EffectiveMaxTokens(o) * CharsPerToken + d : d \in 0 .. MaxPromptLen }
  \cup { ContextLimit(m) * CharsPerToken + d : d \in 0 .. 1 }

\* the caller has a prompt, options and a client of some model
NewPrompt ==
  /\ \E m \in Models, o \in OptionSets :
       /\ tokenModel' = m
       /\ options' = o
       /\ \E len \in PromptLengths(o, m) : prompt' = Prompt(len, 0)
  /\ truncated' = NoPrompt
  /\ sent' = NoPrompt
  /\ tokenOp' = "none"

\* client.truncatePrompt(prompt, options)
TruncatePromptCall ==
  /\ truncated' = TruncatePrompt(prompt, options, tokenModel)
  /\ tokenOp' = "truncatePrompt"
  /\ UNCHANGED <<prompt, options, tokenModel, sent>>

\* client.truncateToTokenLimit(text, maxTokens), of the OpenAIClient that has it
TruncateToTokenLimitCall ==
  /\ tokenModel \in AvailableModels("openai")
  /\ truncated' = TruncateToTokenLimit(prompt, options)
  /\ tokenOp' = "truncateToTokenLimit"
  /\ UNCHANGED <<prompt, options, tokenModel, sent>>

\* a tool's execute: the prompt it built goes to
\* apiClient.generateResponse(prompt, config) and from there into the request
\* body as it is
SendPrompt ==
  /\ sent' = prompt
  /\ tokenOp' = "send"
  /\ UNCHANGED <<prompt, options, tokenModel, truncated>>

\* nothing truncated or sent yet
NoPromptYet ==
  /\ prompt = NoPrompt
  /\ options = [maxTokens |-> 0, reservedTokens |-> 0]
  /\ tokenModel = "gpt-4"
  /\ truncated = NoPrompt
  /\ sent = NoPrompt
  /\ tokenOp = "none"

(***************************************************************************)
(* Input parsing and command classification                                *)
(***************************************************************************)
\* longest input, in tokens
MaxInputLen == 4

\* what an input is made of: the escape prefix, a space, a tab, and words
InputTokens == {"/", " ", "\t", "summarize", "Explain", "credit", "foo"}

Whitespace == {" ", "\t"}

\* String.prototype.toLowerCase, token by token
LowerToken(tok) == IF tok = "Explain" THEN "explain" ELSE tok

ToLowerCase(text) == [i \in DOMAIN text |-> LowerToken(text[i])]

RECURSIVE TrimStart(_)
TrimStart(text) ==
  IF text # <<>> /\ Head(text) \in Whitespace THEN TrimStart(Tail(text))
  ELSE text

RECURSIVE TrimEnd(_)
TrimEnd(text) ==
  IF text # <<>> /\ text[Len(text)] \in Whitespace
    THEN TrimEnd(SubSeq(text, 1, Len(text) - 1))
    ELSE text

\* String.prototype.trim
Trim(text) == TrimEnd(TrimStart(text))

\* text.split(' '): the pieces between single spaces, empty pieces included
RECURSIVE SplitOnSpace(_)
SplitOnSpace(text) ==
  IF \A i \in DOMAIN text : text[i] # " " THEN <<text>>
  ELSE LET at == CHOOSE i \in DOMAIN text :
                   text[i] = " " /\ \A j \in 1 .. i - 1 : text[j] # " "
       IN  <<SubSeq(text, 1, at - 1)>>
             \o SplitOnSpace(SubSeq(text, at + 1, Len(text)))

\* parts.join(' ')
RECURSIVE JoinWithSpace(_)
JoinWithSpace(parts) ==
  IF parts = <<>> THEN <<>>
  ELSE IF Len(parts) = 1 THEN parts[1]
  ELSE parts[1] \o <<" ">> \o JoinWithSpace(Tail(parts))

\* word occurs in the text as a substring: as a token of its own, or inside
\* a longer word
OccursIn(word, tok) ==
  tok = word \/ <<word, tok>> \in {<<"edit", "credit">>}

\* input.includes(word), pattern.test(input) for a pattern without \b
Includes(text, word) == \E i \in DOMAIN text : OccursIn(word, text[i])

\* lowerQuery.match(/\b(word)\b/)
MatchesWord(text, word) == \E i \in DOMAIN text : text[i] = word

\* the keywords object of inferCommand, in its order
InferKeywords ==
  << [command |-> "summarize",
      words |-> {"summarize", "summary", "sum up", "brief", "overview"}],
     [command |-> "rewrite",
      words |-> {"rewrite", "rephrase", "improve", "edit", "revise"}],
     [command |-> "explain",
      words |-> {"explain", "clarify", "what does", "what is",
                 "help me understand"}],
     [command |-> "generate",
      words |-> {"generate", "create", "write", "compose", "draft"}],
     [command |-> "analyze",
      words |-> {"analyze", "review", "examine", "assess", "evaluate"}],
     [command |-> "translate",
      words |-> {"translate", "convert to", "in spanish", "in french"}],
     [command |-> "format",
      words |-> {"format", "style", "make it", "change to"}] >>

\* the patterns object of parseCommand, in its order
ParsePatterns ==
  << [command |-> "summarize",
      words |-> {"summarize", "summary", "sum up", "brief", "overview"}],
     [command |-> "rewrite",
      words |-> {"rewrite", "improve", "enhance", "better", "rephrase",
                 "revise"}],
     [command |-> "explain",
      words |-> {"explain", "clarify", "help me understand", "break down"}],
     [command |-> "generate",
      words |-> {"generate", "create", "write", "compose", "draft"}],
     [command |-> "translate", words |-> {"translate", "translation"}],
     [command |-> "format",
      words |-> {"format", "structure", "organize", "layout"}] >>

\* the if-chain of analyzeQueryType, in its order
QueryPatterns ==
  << [command |-> "content_creation",
      words |-> {"create", "write", "generate", "make", "add", "insert",
                 "build", "table", "list", "paragraph", "section",
                 "heading", "bullet"}],
     [command |-> "text_editing",
      words |-> {"edit", "improve", "fix", "rewrite", "change", "modify",
                 "update", "grammar", "spelling", "tone", "style",
                 "format"}],
     [command |-> "analysis",
      words |-> {"analyze", "explain", "summarize", "review", "check",
                 "what", "why", "how"}],
     [command |-> "question_answer",
      words |-> {"what", "who", "when", "where", "why", "how", "?"}] >>

\* an entry of a table matches the text
EntryMatches(entry, text, wholeWords) ==
  \E word \in entry.words :
    IF wholeWords THEN MatchesWord(text, word) ELSE Includes(text, word)

\* the wrong loop: the last matching entry wins
RECURSIVE FirstMatchFromEnd(_, _, _, _)
FirstMatchFromEnd(table, default, text, wholeWords) ==
  IF table = <<>> THEN default
  ELSE IF EntryMatches(table[Len(table)], text, wholeWords)
    THEN table[Len(table)].command
    ELSE FirstMatchFromEnd(SubSeq(table, 1, Len(table) - 1), default, text,
                           wholeWords)

\* for (const [command, words] of Object.entries(table)) if (match) return
RECURSIVE FirstMatchLoop(_, _, _, _)
FirstMatchLoop(table, default, text, wholeWords) ==
  IF table = <<>> THEN default
  ELSE IF EntryMatches(Head(table), text, wholeWords)
    THEN Head(table).command
    ELSE FirstMatchLoop(Tail(table), default, text, wholeWords)

FirstMatch(table, default, text, wholeWords) ==
  FirstMatchLoop(table, default, text, wholeWords)

\* inferCommand(input), called with the trimmed, lower-cased input
InferCommand(text) == FirstMatch(InferKeywords, "general", text, FALSE)

\* parseCommand(command).tool
ParseCommand(text) ==
  FirstMatch(ParsePatterns, "generate", ToLowerCase(Trim(text)), FALSE)

\* analyzeQueryType(query)
AnalyzeQueryType(text) ==
  FirstMatch(QueryPatterns, "content_creation", ToLowerCase(text), TRUE)

\* parseUserInput(input)
ParseUserInput(text) ==
  LET trimmedInput == ToLowerCase(Trim(text))
  IN  IF trimmedInput # <<>> /\ Head(trimmedInput) = "/"
        THEN LET parts == SplitOnSpace(Tail(trimmedInput))
             IN  [command |-> parts[1],
                  parameters |-> JoinWithSpace(Tail(parts)),
                  isExplicitCommand |-> TRUE]
        ELSE [command |-> <<InferCommand(trimmedInput)>>,
              parameters |-> text,
              isExplicitCommand |-> FALSE]

NoParse == [command |-> <<>>, parameters |-> <<>>, isExplicitCommand |-> FALSE]

NoClassification ==
  [inferCommand |-> "none", parseCommand |-> "none",
   analyzeQueryType |-> "none"]

\* all inputs of up to MaxInputLen tokens
Inputs == UNION { [1 .. n -> InputTokens] : n \in 0 .. MaxInputLen }

\* the user types something into the empty input field
NewInput ==
  /\ input = <<>>
  /\ parseOp = "none"
  /\ input' \in Inputs
  /\ UNCHANGED <<parsed, classified, parseOp>>

\* the input field is cleared for the next request
ClearInput ==
  /\ input' = <<>>
  /\ parsed' = NoParse
  /\ classified' = NoClassification
  /\ parseOp' = "none"

\* agent.parseUserInput(input)
ParseUserInputCall ==
  /\ parsed' = ParseUserInput(input)
  /\ parseOp' = "parseUserInput"
  /\ UNCHANGED <<input, classified>>

\* the three classifiers on the same text
ClassifyCall ==
  /\ classified' = [inferCommand |-> InferCommand(ToLowerCase(Trim(input))),
                    parseCommand |-> ParseCommand(input),
                    analyzeQueryType |-> AnalyzeQueryType(input)]
  /\ parseOp' = "classify"
  /\ UNCHANGED <<input, parsed>>

\* nothing typed yet
NoInputYet ==
  /\ input = <<>>
  /\ parsed = NoParse
  /\ classified = NoClassification
  /\ parseOp = "none"

(***************************************************************************)
(* User settings and connection tests                                      *)
(***************************************************************************)
\* getProperty('ai_agent_settings') returning null
NoSettings == [saved |-> FALSE, apiKey |-> "", model |-> "gpt-3.5-turbo"]

\* the settings objects the settings dialog passes to saveUserSettings
SettingsObjects ==
  { [saved |-> TRUE, apiKey |-> k, model |-> m] :
      k \in Keys, m \in AvailableModels("openai") }

\* the strings inside a settings object
SettingsAtoms(st) == {st.apiKey, st.model}

\* saveUserSettings(settings): logs the object, stores it, reads it back and
\* logs what it read
SaveUserSettings ==
  /\ \E st \in SettingsObjects :
       /\ userSettings' = st
       /\ logged' = SettingsAtoms(st)
  /\ returned' = {"Settings saved successfully!"}
  /\ lastThrew' = FALSE
  /\ UNCHANGED <<provider, constructed, config, fetchedWith, agentConfig>>

\* the parsed settings with gpt-4 forced to gpt-3.5-turbo
ForcedModel(st) ==
  IF st.model = "gpt-4" THEN [st EXCEPT !.model = "gpt-3.5-turbo"] ELSE st

\* getUserSettings(): logs the stored string and the parsed object, forces
\* the model and saves the correction; the defaults when nothing is stored
GetUserSettings ==
  /\ logged' = SettingsAtoms(userSettings)
  /\ userSettings' = IF userSettings.saved THEN ForcedModel(userSettings)
                     ELSE userSettings
  /\ returned' = SettingsAtoms(ForcedModel(userSettings))
  /\ lastThrew' = FALSE
  /\ UNCHANGED <<provider, constructed, config, fetchedWith, agentConfig>>

\* testConnection(): GeminiClient fetches itself and logs the response code
\* and text, OpenAIClient goes through generateResponse; both catch, log the
\* error and return a boolean
TestConnection ==
  /\ constructed
  /\ fetchedWith' = <<provider, config["apiKey"]>>
  /\ \E http \in {"200", "500"} :
       /\ logged' = IF provider = "gemini"
                      THEN {"Test connection response"}
                      ELSE IF http = "200" THEN {}
                           ELSE RequestLog(provider, config, http)
                                  \cup {"Connection test failed"}
       /\ returned' = {IF http = "200" THEN "true" ELSE "false"}
  /\ lastThrew' = FALSE
  /\ UNCHANGED <<provider, constructed, config, agentConfig, userSettings>>

(***************************************************************************)
(* The text a tool operates on                                             *)
(* src/core/tools/SummarizeTool.js, RewriteTool.js, part_007 (ExplainTool),*)
(* part_003 (translate, format)                                            *)
(***************************************************************************)
\* request.parameters, by what the tools' regular expressions see in it:
\* nothing, words without a quote, a quoted text, a quoted text after
\* "summarize:", a quoted text after "explain", a "what is X" question
QuotedText == "Q"
AskedConcept == "X"
TailPlain == "in French"
TailQuoted == "\"Q\""
TailSummarizeQuoted == "summarize: \"Q\""
TailExplainQuoted == "explain \"Q\""
TailWhatIs == "what is X"
Tails == {"", TailPlain, TailQuoted, TailSummarizeQuoted, TailExplainQuoted,
          TailWhatIs}

\* context.selection and context.content: empty, blank, or a text
Selections == {"", " ", "S"}
Contents == {"", " ", "D"}

\* params.match(/"([^"]+)"/)
HasQuote(t) == t \in {TailQuoted, TailSummarizeQuoted, TailExplainQuoted}

\* s && s.trim().length > 0
NonBlank(s) == s \notin {"", " "}

\* JavaScript truthiness of a string, as in  a || b
Truthy(s) == s # ""

\* SummarizeTool.getTextToSummarize
TextToSummarize(t, sel, doc) ==
  IF t = TailSummarizeQuoted THEN QuotedText
  ELSE IF NonBlank(sel) THEN sel
  ELSE doc

\* RewriteTool.getTextToRewrite
TextToRewrite(t, sel, doc) ==
  IF HasQuote(t) THEN QuotedText
  ELSE IF NonBlank(sel) THEN sel
  ELSE ""

\* ExplainTool.getTextToExplain
TextToExplain(t, sel, doc) ==
  IF t = TailExplainQuoted THEN QuotedText
  ELSE IF t = TailWhatIs THEN AskedConcept
  ELSE IF NonBlank(sel) THEN sel
  ELSE ""

\* extractTextFromRequest
ExtractTextFromRequest(t) == IF HasQuote(t) THEN QuotedText ELSE t

\* buildTranslatePrompt: context.selection || extractTextFromRequest(request)
TextToTranslate(t, sel, doc) ==
  IF Truthy(sel) THEN sel ELSE ExtractTextFromRequest(t)

\* buildFormatPrompt: context.selection || context.content
TextToFormat(t, sel, doc) == IF Truthy(sel) THEN sel ELSE doc

\* a request with its document context arrives
NewRequest ==
  /\ subjectTool = "none"
  /\ tail = "" /\ selection = "" /\ content = ""
  /\ \E t \in Tails, sel \in Selections, doc \in Contents :
       /\ <<t, sel, doc>> # <<"", "", "">>
       /\ tail' = t
       /\ selection' = sel
       /\ content' = doc
  /\ UNCHANGED <<subjectTool, subject>>

SummarizeSubject ==
  /\ subjectTool = "none"
  /\ subjectTool' = "summarize"
  /\ subject' = TextToSummarize(tail, selection, content)
  /\ UNCHANGED <<tail, selection, content>>

RewriteSubject ==
  /\ subjectTool = "none"
  /\ subjectTool' = "rewrite"
  /\ subject' = TextToRewrite(tail, selection, content)
  /\ UNCHANGED <<tail, selection, content>>

ExplainSubject ==
  /\ subjectTool = "none"
  /\ subjectTool' = "explain"
  /\ subject' = TextToExplain(tail, selection, content)
  /\ UNCHANGED <<tail, selection, content>>

TranslateSubject ==
  /\ subjectTool = "none"
  /\ subjectTool' = "translate"
  /\ subject' = TextToTranslate(tail, selection, content)
  /\ UNCHANGED <<tail, selection, content>>

FormatSubject ==
  /\ subjectTool = "none"
  /\ subjectTool' = "format"
  /\ subject' = TextToFormat(tail, selection, content)
  /\ UNCHANGED <<tail, selection, content>>

NoSubjectYet ==
  /\ tail = ""
  /\ selection = ""
  /\ content = ""
  /\ subjectTool = "none"
  /\ subject = ""

(***************************************************************************)
(* The conversation context rendered for prompts                           *)
(* gas-ready/MemoryManager.gs: getConversationContext, summarizeResponse   *)
(***************************************************************************)
\* the cap of summarizeResponse
SummaryCap == 100
\* records in the log of this part of the model
MaxRecords == 2
\* options.recentCount || 3
DefaultRecentCount == 3

\* recorded responses by shape, each carrying the length of its text: a plain
\* string, {result: string}, {result: {summary}}, {result: {rewrittenText}},
\* and an object with none of these
ResponseShapes == {"string", "resultString", "summary", "rewrittenText", "other"}
TextLengths == {1, SummaryCap, SummaryCap + 1}
Responses == [shape : ResponseShapes, len : TextLengths]

\* the text summarizeResponse returns: its length, whether '...' was appended,
\* whether it is the literal 'AI response'
CutAtCap(len) ==
  IF len > SummaryCap THEN [len |-> SummaryCap + MarkerLength, cut |-> TRUE]
  ELSE [len |-> len, cut |-> FALSE]

SummarizeResponse(r) ==
  IF r.shape = "string" THEN CutAtCap(r.len)
  ELSE IF r.shape = "resultString" THEN CutAtCap(r.len)
  ELSE IF r.shape = "summary" THEN [len |-> r.len, cut |-> FALSE]
  ELSE IF r.shape = "rewrittenText" THEN [len |-> r.len, cut |-> FALSE]
  ELSE [len |-> 11, cut |-> FALSE]

\* recent.reverse().forEach((interaction, index) => ...): line index + 1 is
\* about the record at position Len(recent) - index of the slice
ContextLines(recent) ==
  [i \in 1 .. Len(recent) |->
     [index |-> i,
      of |-> Len(recent) - i + 1,
      ai |-> SummarizeResponse(recent[Len(recent) - i + 1])]]

\* storeInteraction as far as the rendered context is concerned: unshift
StoreResponse ==
  /\ Len(responses) < MaxRecords
  /\ \E r \in Responses : responses' = <<r>> \o responses
  /\ transcript' = <<>>
  /\ contextOp' = "store"

\* getConversationContext(options): recentCount 0 (absent) falls back to 3
GetConversationContext ==
  /\ \E recentCount \in 0 .. MaxRecords :
       LET n == IF recentCount = 0 THEN DefaultRecentCount ELSE recentCount
           recent == SubSeq(responses, 1,
                            IF n < Len(responses) THEN n ELSE Len(responses))
       IN  transcript' = ContextLines(recent)
  /\ contextOp' = "context"
  /\ UNCHANGED responses

NoContextYet ==
  /\ responses = <<>>
  /\ transcript = <<>>
  /\ contextOp = "none"

(***************************************************************************)
(* The statistics of a summary                                             *)
(* src/core/tools/SummarizeTool.js: execute, formatSummaryResult           *)
(***************************************************************************)
\* words of a text in this part of the model
MaxWords == 3
\* a text is its words, single spaces between them; a word is its length
WordLengths == {1, 2}
Texts == UNION { [1 .. n -> WordLengths] : n \in 1 .. MaxWords }

\* getWordCount: text.trim().split(/\s+/).filter(word => word.length > 0).length
GetWordCount(text) == Len(text)

RECURSIVE SumOfLengths(_)
SumOfLengths(text) ==
  IF text = <<>> THEN 0 ELSE Head(text) + SumOfLengths(Tail(text))

\* text.length: the words and the spaces between them
TextLength(text) ==
  IF text = <<>> THEN 0 ELSE SumOfLengths(text) + Len(text) - 1

\* (a / b).toFixed(2), in hundredths
ToFixed2(a, b) == (200 * a + b) \div (2 * b)

\* metadata.compressionRatio of execute:
\* (result.summary.length / textToSummarize.length).toFixed(2)
MetadataCompressionRatio(summary, original) ==
  ToFixed2(TextLength(summary), TextLength(original))

\* statistics.compressionRatio of formatSummaryResult
StatisticsCompressionRatio(summary, original) ==
  IF GetWordCount(original) > 0
    THEN ToFixed2(GetWordCount(summary), GetWordCount(original))
    ELSE 0

NoSummary == [done |-> FALSE, metadataRatio |-> 0, statisticsRatio |-> 0]

\* a successful SummarizeTool.execute
SummarizeExecute ==
  \E original \in Texts, summary \in Texts :
    /\ originalText' = original
    /\ summaryText' = summary
    /\ summarized' =
         [done |-> TRUE,
          metadataRatio |-> MetadataCompressionRatio(summary, original),
          statisticsRatio |-> StatisticsCompressionRatio(summary, original)]

NoSummaryYet ==
  /\ originalText = <<>>
  /\ summaryText = <<>>
  /\ summarized = NoSummary

(***************************************************************************)
(* The records of the log and the arrays the reads hand out                *)
(* gas-ready/MemoryManager.gs, a MemoryManager with persistToStorage false *)
(* while the clock stands still                                            *)
(***************************************************************************)
\* calls of storeInteraction in this part of the model
MaxStores == 2

\* the interaction object: id, timestamp and the fields given by the caller
Record(id, t, aiResponse) ==
  [id |-> id, timestamp |-> t, aiResponse |-> aiResponse]

\* what callers store as aiResponse
StoredResponses == {SuccessResult, FailedResult}

\* entries of an importHistory payload: any fields, and as id either one
\* that generateId never issues (0) or one taken from an export; timestamp -1
\* stands for an entry without one
RecordEntries ==
  { Record(id, 0, r) : id \in 0 .. MaxStores, r \in StoredResponses }
    \cup {Record(0, -1, SuccessResult)}

RecordPayloads == UNION { [1 .. n -> RecordEntries] : n \in 0 .. 2 }

RecordsOf(h) == { h[i] : i \in DOMAIN h }
IdsOf(h) == { h[i].id : i \in DOMAIN h }

\* Array.prototype.reverse
Reverse(h) == [i \in 1 .. Len(h) |-> h[Len(h) - i + 1]]

\* an array value and whether it is the very array this.conversationHistory
\* refers to.  A getRecentInteractions that returns the array itself:
RecentInteractionsShared(count) == [items |-> records, shared |-> TRUE]

\* getRecentInteractions(count): slice(0, count), a new array
RecentInteractions(count) ==
  [items |-> SubSeq(records, 1, IF count < Len(records) THEN count
                                                        ELSE Len(records)),
   shared |-> FALSE]

\* storeInteraction: a record with a new id in front, trimHistory
StoreRecord ==
  /\ nextId <= MaxStores
  /\ \E r \in StoredResponses :
       records' = TrimHistory(<<Record(nextId, now, r)>> \o records, now)
  /\ nextId' = nextId + 1
  /\ handedOut' = <<>>
  /\ frameOp' = "store"

\* importHistory(data, options): optional replace, push valid, sort, trim
ImportRecords ==
  /\ \E data \in RecordPayloads, replace \in BOOLEAN :
       LET valid == SelectSeq(data, ValidImport)
           base  == IF replace THEN <<>> ELSE records
       IN  /\ \A i \in DOMAIN data : data[i].id < nextId
           /\ records' = TrimHistory(SortNewestFirst(base \o valid), now)
           /\ frameOp' = IF IdsOf(valid) \cap IdsOf(records) # {}
                           THEN "importSameId" ELSE "import"
  /\ handedOut' = <<>>
  /\ UNCHANGED nextId

\* clearHistory(options): everything, or the records older than a date
ClearRecords ==
  /\ \E h \in {<<>>, SelectSeq(records, LAMBDA item : item.timestamp >= now)} :
       records' = h
  /\ handedOut' = <<>>
  /\ frameOp' = "clear"
  /\ UNCHANGED nextId

\* getRecentInteractions(count)
ReadRecentInteractions ==
  /\ \E count \in 0 .. MaxHistoryItems :
       handedOut' = RecentInteractions(count).items
  /\ frameOp' = "getRecentInteractions"
  /\ UNCHANGED <<records, nextId>>

\* getConversationContext: recent.reverse() reverses in place the array that
\* getRecentInteractions returned
ReadConversationContext ==
  /\ \E count \in 1 .. MaxHistoryItems :
       LET recent == RecentInteractions(count)
       IN  /\ handedOut' = Reverse(recent.items)
           /\ records' = IF recent.shared THEN Reverse(records) ELSE records
  /\ frameOp' = "getConversationContext"
  /\ UNCHANGED nextId

\* getConversationHistory(options): a copy, filtered (here by tool outcome)
\* and cut to options.limit; exportHistory hands out the same array
ReadConversationHistory ==
  /\ \E keep \in SUBSET StoredResponses, limit \in 1 .. MaxHistoryItems :
       LET h == SelectSeq(records, LAMBDA item : item.aiResponse \in keep)
       IN  handedOut' = SubSeq(h, 1, IF limit < Len(h) THEN limit ELSE Len(h))
  /\ frameOp' \in {"getConversationHistory", "exportHistory"}
  /\ UNCHANGED <<records, nextId>>

\* searchHistory(query, options): filter, slice
SearchHistory ==
  /\ \E hit \in StoredResponses :
       handedOut' = SelectSeq(records, LAMBDA item : item.aiResponse = hit)
  /\ frameOp' = "searchHistory"
  /\ UNCHANGED <<records, nextId>>

FrameReads == {"getRecentInteractions", "getConversationContext",
               "getConversationHistory", "exportHistory", "searchHistory"}

NoRecordsYet ==
  /\ records = <<>>
  /\ handedOut = <<>>
  /\ nextId = 1
  /\ frameOp = "none"

(***************************************************************************)
(* The prompts the tools build                                             *)
(* src/core/tools/RewriteTool.js, SummarizeTool.js, PROJECT_SUMMARY.md     *)
(* (ExplainTool), gas-ready/SummarizeTool.gs                               *)
(***************************************************************************)
\* the values the parameter extractors return
RewriteStyles == {"formal", "casual", "academic", "creative", "simple", "improve"}
RewriteTones == {"professional", "friendly", "persuasive", "authoritative",
                 "empathetic", "neutral"}
RewriteLengths == {"shorter", "longer", "same"}
SummaryStyles == {"bullet-points", "detailed", "concise"}
SummaryLengths == {"short", "long", "medium"}
ExplainStyles == {"simple", "detailed", "technical", "academic",
                  "conversational", "clear"}
ExplainAudiences == {"beginner", "expert", "child", "general"}
ExplainDepths == {"brief", "detailed", "moderate"}

\* what isCodeSnippet, isTechnicalTerm, isComplexSentence find in a text
TextShapes == {"code", "term", "complex", "codeAndTerm", "ordinary"}

\* the parts of a prompt
Preamble == [kind |-> "preamble", about |-> ""]
Option(field, value) == [kind |-> "option", about |-> field \o ": " \o value]
QuotedSubject == [kind |-> "subject", about |-> "quoted"]
BareSubject == [kind |-> "subject", about |-> "bare"]
Cue(shape) == [kind |-> "cue", about |-> shape]
Closing == [kind |-> "closing", about |-> ""]

\* RewriteTool.buildRewritePrompt (src/core)
BuildRewritePrompt(instructions) ==
  <<Preamble,
    Option("Style", instructions.style),
    Option("Tone", instructions.tone),
    Option("Length", instructions.length)>>
  \o (IF instructions.specific THEN <<Option("Specific", "requirements")>>
                               ELSE <<>>)
  \o <<QuotedSubject, Closing>>

\* SummarizeTool.buildSummarizationPrompt (src/core)
BuildSummarizationPrompt(style, length) ==
  <<Preamble, Option("Style", style), Option("Length", length),
    QuotedSubject, Closing>>

\* ExplainTool.buildExplanationPrompt
BuildExplanationPrompt(preferences, shape) ==
  <<Preamble,
    Option("Style", preferences.style),
    Option("Audience", preferences.audience),
    Option("Depth", preferences.depth)>>
  \o (IF preferences.includeExamples THEN <<Option("Examples", "include")>>
                                      ELSE <<>>)
  \o <<QuotedSubject>>
  \o (IF shape \in {"code", "codeAndTerm"} THEN <<Cue("code")>>
      ELSE IF shape = "term" THEN <<Cue("term")>>
      ELSE IF shape = "complex" THEN <<Cue("complex")>>
      ELSE <<>>)
  \o <<Closing>>

\* SummarizeTool.buildSummarizationPrompt (gas-ready): the text, then the
\* style and length sentences
GasBuildSummarizationPrompt(style, length) ==
  <<Preamble, BareSubject, Option("Style", style), Option("Length", length)>>

\* RewriteTool.buildRewritePrompt (gas-ready): the text, then the style,
\* tone, length and focus sentences, then the closing sentence
GasBuildRewritePrompt(instructions) ==
  <<Preamble, QuotedSubject, Option("Style", instructions.style)>>
  \o (IF instructions.tone \in {"professional", "friendly", "persuasive"}
        THEN <<Option("Tone", instructions.tone)>> ELSE <<>>)
  \o <<Option("Length", instructions.length)>>
  \o (IF instructions.specific THEN <<Option("Specific", "requirements")>>
                               ELSE <<>>)
  \o <<Closing>>

RewriteInstructions ==
  [style : RewriteStyles, tone : {"professional", "neutral"},
   length : RewriteLengths, specific : BOOLEAN]

ExplainPreferences ==
  [style : {"simple", "clear"}, audience : ExplainAudiences,
   depth : ExplainDepths, includeExamples : BOOLEAN]

BuildRewrite ==
  /\ \E i \in RewriteInstructions : built' = BuildRewritePrompt(i)
  /\ builder' = "RewriteTool"

BuildSummarization ==
  /\ \E s \in SummaryStyles, l \in SummaryLengths :
       built' = BuildSummarizationPrompt(s, l)
  /\ builder' = "SummarizeTool"

BuildExplanation ==
  /\ \E p \in ExplainPreferences, shape \in TextShapes :
       built' = BuildExplanationPrompt(p, shape)
  /\ builder' = "ExplainTool"

GasBuildSummarization ==
  /\ \E s \in SummaryStyles, l \in SummaryLengths :
       built' = GasBuildSummarizationPrompt(s, l)
  /\ builder' = "gas-ready SummarizeTool"

GasBuildRewrite ==
  /\ \E i \in RewriteInstructions : built' = GasBuildRewritePrompt(i)
  /\ builder' = "gas-ready RewriteTool"

NoPromptBuiltYet ==
  /\ builder = "none"
  /\ built = <<>>

(***************************************************************************)
(* The parameter extractors                                                *)
(* src/core/tools/RewriteTool.js, SummarizeTool.js, PROJECT_SUMMARY.md     *)
(* (ExplainTool), gas-ready/SummarizeTool.gs                               *)
(***************************************************************************)
\* words of request.parameters in this part of the model
MaxParamWords == 1

\* RewriteTool.extractStyle: styles
RewriteStyleTable ==
  <<[value |-> "formal",
      keywords |-> {"formal", "professional", "business", "official"}],
    [value |-> "casual",
      keywords |-> {"casual", "informal", "conversational", "relaxed"}],
    [value |-> "academic",
      keywords |-> {"academic", "scholarly", "research", "technical"}],
    [value |-> "creative",
      keywords |-> {"creative", "artistic", "expressive", "imaginative"}],
    [value |-> "simple",
      keywords |-> {"simple", "clear", "plain", "straightforward"}],
    [value |-> "improve",
      keywords |-> {"improve", "better", "enhance", "polish"}]>>

\* RewriteTool.extractTone: tones
RewriteToneTable ==
  <<[value |-> "professional",
      keywords |-> {"professional", "business", "corporate"}],
    [value |-> "friendly",
      keywords |-> {"friendly", "warm", "approachable", "welcoming"}],
    [value |-> "persuasive",
      keywords |-> {"persuasive", "convincing", "compelling"}],
    [value |-> "authoritative",
      keywords |-> {"authoritative", "confident", "expert"}],
    [value |-> "empathetic",
      keywords |-> {"empathetic", "understanding", "compassionate"}],
    [value |-> "neutral",
      keywords |-> {"neutral", "objective", "balanced"}]>>

\* RewriteTool.extractLengthPreference: the if-chain
RewriteLengthTable ==
  <<[value |-> "shorter",
      keywords |-> {"shorter", "concise", "brief"}],
    [value |-> "longer",
      keywords |-> {"longer", "expand", "elaborate"}]>>

\* SummarizeTool.extractStyle: the if-chain
SummaryStyleTable ==
  <<[value |-> "bullet-points",
      keywords |-> {"bullet", "points", "list"}],
    [value |-> "detailed",
      keywords |-> {"detailed", "comprehensive", "thorough"}]>>

\* SummarizeTool.extractLength: the if-chain
SummaryLengthTable ==
  <<[value |-> "short",
      keywords |-> {"short", "brief", "quick"}],
    [value |-> "long",
      keywords |-> {"long", "detailed", "extensive"}]>>

\* ExplainTool.extractStyle: styles
ExplainStyleTable ==
  <<[value |-> "simple",
      keywords |-> {"simple", "easy", "basic", "plain"}],
    [value |-> "detailed",
      keywords |-> {"detailed", "comprehensive", "thorough", "in-depth"}],
    [value |-> "technical",
      keywords |-> {"technical", "precise", "scientific", "formal"}],
    [value |-> "academic",
      keywords |-> {"academic", "scholarly", "research-based"}],
    [value |-> "conversational",
      keywords |-> {"conversational", "casual", "friendly"}]>>

\* ExplainTool.extractAudience: the if-chain
ExplainAudienceTable ==
  <<[value |-> "beginner",
      keywords |-> {"beginner", "novice", "new to"}],
    [value |-> "expert",
      keywords |-> {"expert", "advanced", "professional"}],
    [value |-> "child",
      keywords |-> {"child", "kid", "5 year old"}]>>

\* ExplainTool.extractDepth: the if-chain
ExplainDepthTable ==
  <<[value |-> "brief",
      keywords |-> {"brief", "quick", "short"}],
    [value |-> "detailed",
      keywords |-> {"detailed", "comprehensive", "thorough"}]>>

\* RewriteTool.parseRewriteInstructions (gas-ready): the style if-chain
GasRewriteStyleTable ==
  <<[value |-> "formal",
      keywords |-> {"formal"}],
    [value |-> "casual",
      keywords |-> {"casual", "informal"}],
    [value |-> "academic",
      keywords |-> {"academic"}],
    [value |-> "creative",
      keywords |-> {"creative"}],
    [value |-> "improve",
      keywords |-> {"improve", "better"}]>>

ExtractorTables ==
  {RewriteStyleTable, RewriteToneTable, RewriteLengthTable, SummaryStyleTable,
   SummaryLengthTable, ExplainStyleTable, ExplainAudienceTable,
   ExplainDepthTable, GasRewriteStyleTable}

\* the entries of a table with a keyword that params includes
Hits(tbl, text) ==
  { i \in DOMAIN tbl : \E k \in tbl[i].keywords : StringIncludes(text, k) }

\* an extractor that has no default
ExtractNoDefault(tbl, default, text) ==
  IF Hits(tbl, text) = {} THEN "undefined"
  ELSE tbl[CHOOSE i \in Hits(tbl, text) : \A k \in Hits(tbl, text) : i <= k].value

\* for (const [value, keywords] of Object.entries(table)): the first entry
\* with a keyword that params includes; the default after the loop
Extract(tbl, default, text) ==
  IF Hits(tbl, text) = {} THEN default
  ELSE tbl[CHOOSE i \in Hits(tbl, text) : \A k \in Hits(tbl, text) : i <= k].value

\* the extractors by name: table and default
Extractors ==
  [RewriteExtractStyle |-> [tbl |-> RewriteStyleTable, default |-> "improve"],
   RewriteExtractTone |-> [tbl |-> RewriteToneTable, default |-> "neutral"],
   ExtractLengthPreference |-> [tbl |-> RewriteLengthTable, default |-> "same"],
   SummarizeExtractStyle |-> [tbl |-> SummaryStyleTable, default |-> "concise"],
   SummarizeExtractLength |-> [tbl |-> SummaryLengthTable, default |-> "medium"],
   ExplainExtractStyle |-> [tbl |-> ExplainStyleTable, default |-> "clear"],
   ExtractAudience |-> [tbl |-> ExplainAudienceTable, default |-> "general"],
   ExtractDepth |-> [tbl |-> ExplainDepthTable, default |-> "moderate"],
   GasParseStyle |-> [tbl |-> GasRewriteStyleTable, default |-> "improve"]]

\* the documented values of each extractor
Enumerations ==
  [RewriteExtractStyle |-> RewriteStyles,
   RewriteExtractTone |-> RewriteTones,
   ExtractLengthPreference |-> RewriteLengths,
   SummarizeExtractStyle |-> SummaryStyles,
   SummarizeExtractLength |-> SummaryLengths,
   ExplainExtractStyle |-> ExplainStyles,
   ExtractAudience |-> ExplainAudiences,
   ExtractDepth |-> ExplainDepths,
   GasParseStyle |-> RewriteStyles]

\* the words requests are made of: every keyword, every value, and words
\* and phrases that are neither
Vocabulary ==
  UNION { UNION { tbl[i].keywords : i \in DOMAIN tbl } : tbl \in ExtractorTables }
    \cup UNION { Enumerations[e] : e \in DOMAIN Enumerations }
    \cup {"this", "uninformed", "explain this in detail", "make it sound nice"}

RECURSIVE ParamsOfWords(_)
ParamsOfWords(n) ==
  IF n = 1 THEN Vocabulary
  ELSE { p \o " " \o w : p \in ParamsOfWords(n - 1), w \in Vocabulary }

ParamStrings == {""} \cup UNION { ParamsOfWords(n) : n \in 1 .. MaxParamWords }

\* an extractor runs on params and, for the round trip, on what it returned
RunExtractor(name) ==
  /\ extractor = "none"
  /\ \E text \in ParamStrings :
       LET e == Extractors[name]
           v == Extract(e.tbl, e.default, text)
       IN  /\ params' = text
           /\ extracted' = v
           /\ again' = Extract(e.tbl, e.default, v)
  /\ extractor' = name

RewriteExtractStyle == RunExtractor("RewriteExtractStyle")
RewriteExtractTone == RunExtractor("RewriteExtractTone")
ExtractLengthPreference == RunExtractor("ExtractLengthPreference")
SummarizeExtractStyle == RunExtractor("SummarizeExtractStyle")
SummarizeExtractLength == RunExtractor("SummarizeExtractLength")
ExplainExtractStyle == RunExtractor("ExplainExtractStyle")
ExtractAudience == RunExtractor("ExtractAudience")
ExtractDepth == RunExtractor("ExtractDepth")
GasParseStyle == RunExtractor("GasParseStyle")

NoExtractionYet ==
  /\ params = ""
  /\ extractor = "none"
  /\ extracted = ""
  /\ again = ""

(***************************************************************************)
(* isWithinTokenLimits with options.maxTokens given or not                 *)
(* part_006 (OpenAIClient), src/GeminiClient.gs                            *)
(***************************************************************************)
\* the models of the clients, with a second model of the gpt-4 family
LimitModels == Models \cup {"gpt-4-turbo"}

\* options: maxTokens given (0 included) or not given
LimitOptions ==
  { [given |-> TRUE, maxTokens |-> mt] : mt \in {0, 2, 26, 5000} }
    \cup { [given |-> FALSE, maxTokens |-> 0] }

\* the options object as the client reads it: a missing maxTokens reads as
\* undefined, which  options.maxTokens || ...  treats as it treats 0
AsOptions(o) ==
  [maxTokens |-> IF o.given THEN o.maxTokens ELSE 0, reservedTokens |-> 0]

\* prompt lengths: short ones and ones around each threshold
LimitLengths(m) ==
  (0 .. MaxPromptLen)
  \cup { Clip((ContextLimit(m) - mt) * CharsPerToken - CharsPerToken + d) :
           mt \in {0, 2, 26, DefaultMaxTokens}, d \in 0 .. MaxPromptLen }

NoLimitCall == [len |-> 0, options |-> [given |-> FALSE, maxTokens |-> 0],
                model |-> "gpt-4"]

\* client.isWithinTokenLimits(prompt, options) of a client of model m
IsWithinTokenLimitsCall ==
  \E m \in LimitModels, o \in LimitOptions :
    \E len \in LimitLengths(m) :
      /\ limitCall' = [len |-> len, options |-> o, model |-> m]
      /\ within' = IsWithinTokenLimits(Prompt(len, 0), AsOptions(o), m)

NoLimitCallYet ==
  /\ limitCall = NoLimitCall
  /\ within = TRUE

(***************************************************************************)
(* Overlapping executions of processAIRequestEnhanced                      *)
(* gas-ready/AgentIntegration.gs, gas-ready/MemoryManager.gs               *)
(***************************************************************************)
\* executions in flight at the same time
MaxExecutions == 2

Executions == 1 .. MaxExecutions

\* an execution that ran to its end before the others began left its
\* interaction (id 0) in the store
EarlierExecution ==
  /\ persisted = <<>>
  /\ \A e \in Executions : execPc[e] = "idle"
  /\ \E r \in StoredResponses : persisted' = <<Record(0, 0, r)>>
  /\ UNCHANGED <<execPc, execHistory, execResult>>

\* initializeAIAgent(): new MemoryManager(...), whose constructor ends in
\* loadFromStorage(): getProperty, parse, trimHistory
ExecLoadFromStorage(e) ==
  /\ execPc[e] = "idle"
  /\ execHistory' = [execHistory EXCEPT ![e] = TrimHistory(persisted, 0)]
  /\ execPc' = [execPc EXCEPT ![e] = "loaded"]
  /\ UNCHANGED <<persisted, execResult>>

\* agentSystem.agent.processRequest(userInput || command, context)
ProcessRequestStep(e) ==
  /\ execPc[e] = "loaded"
  /\ \E r \in StoredResponses : execResult' = [execResult EXCEPT ![e] = r]
  /\ execPc' = [execPc EXCEPT ![e] = "processed"]
  /\ UNCHANGED <<persisted, execHistory>>

\* storeInteraction up to its await: unshift(interaction), trimHistory();
\* the interaction of execution e is identified by e
AppendInteraction(e) ==
  /\ execPc[e] = "processed"
  /\ execHistory' =
       [execHistory EXCEPT
          ![e] = TrimHistory(<<Record(e, 0, execResult[e])>> \o @, 0)]
  /\ execPc' = [execPc EXCEPT ![e] = "stored"]
  /\ UNCHANGED <<persisted, execResult>>

\* saveToStorage(): setProperty(storageKey, JSON.stringify(data))
ExecSaveToStorage(e) ==
  /\ execPc[e] = "stored"
  /\ persisted' = execHistory[e]
  /\ execPc' = [execPc EXCEPT ![e] = "saved"]
  /\ UNCHANGED <<execHistory, execResult>>

NoExecutionYet ==
  /\ persisted = <<>>
  /\ execPc = [e \in Executions |-> "idle"]
  /\ execHistory = [e \in Executions |-> <<>>]
  /\ execResult = [e \in Executions |-> FailedResult]

\* no client yet; an AgentController built by the embedding code without a
\* key in its config
NoClientYet ==
  /\ provider = "openai"
  /\ constructed = FALSE
  /\ config = [apiKey |-> "", model |-> "gpt-4"]
  /\ fetchedWith = <<>>
  /\ lastThrew = FALSE
  /\ agentConfig = AgentControllerConfig([model |-> "gpt-4"])
  /\ returned = {}
  /\ logged = {}
  /\ userSettings = NoSettings
  /\ NoPromptYet
  /\ NoInputYet
  /\ NoSubjectYet
  /\ NoExecutionYet
  /\ NoLimitCallYet
  /\ NoExtractionYet
  /\ NoPromptBuiltYet
  /\ NoRecordsYet
  /\ NoSummaryYet
  /\ NoContextYet

(***************************************************************************)
(* Specifications                                                          *)
(***************************************************************************)
vars == <<memVars, agentVars, clientVars>>

\* a MemoryManager on its own: the agent is wired and idle
AgentWired ==
  /\ tools = RegisteredByAll
  /\ hasApiClient = TRUE
  /\ hasMemoryManager = TRUE
  /\ hasContextManager = TRUE
  /\ NoRequestYet

InitMemOnly == InitMem /\ AgentWired /\ NoClientYet

NextMem ==
  \/ StoreInteraction /\ UNCHANGED <<agentVars, clientVars>>
  \/ ImportHistory /\ UNCHANGED <<agentVars, clientVars>>
  \/ ClearHistory /\ UNCHANGED <<agentVars, clientVars>>
  \/ LoadFromStorage /\ UNCHANGED <<agentVars, clientVars>>
  \/ Tick /\ UNCHANGED <<agentVars, clientVars>>

SpecMem == InitMemOnly /\ [][NextMem]_vars

\* request dispatch: the clock stands still, the clients are left alone
InitDispatch == InitAgent /\ NoClientYet

NextDispatch ==
  \/ ProcessRequest /\ UNCHANGED <<clientVars, uncallable, regOutcome>>
  \/ ProcessAIRequestEnhanced /\ UNCHANGED <<clientVars, uncallable, regOutcome>>
  \/ GetDocumentContext /\ UNCHANGED <<clientVars, uncallable, regOutcome>>
  \/ ExecuteTool /\ UNCHANGED <<clientVars, uncallable, regOutcome>>
  \/ StoreAndReturn /\ UNCHANGED <<clientVars, uncallable, regOutcome>>

SpecAgent == InitDispatch /\ [][NextDispatch]_vars

\* the registry: registrations, and the dispatcher that looks tools up
\* without a fallback
NextRegistry ==
  \/ RegisterTool /\ UNCHANGED clientVars
  \/ RegisterAllTools /\ UNCHANGED clientVars
  \/ ExecuteCommand /\ UNCHANGED clientVars

SpecRegistry == InitDispatch /\ [][NextRegistry]_vars

\* a provider client and the objects handed to the caller
InitClient ==
  /\ InitMem /\ persistToStorage
  /\ AgentWired
  /\ NoClientYet

NextClient ==
  \/ Construct
       /\ UNCHANGED <<laterVars, subjectVars, memVars, agentVars,
                      tokenVars, parseVars, logged, userSettings>>
  \/ UpdateApiKey
       /\ UNCHANGED <<laterVars, subjectVars, memVars, agentVars,
                      tokenVars, parseVars, logged, userSettings>>
  \/ UpdateModel
       /\ UNCHANGED <<laterVars, subjectVars, memVars, agentVars,
                      tokenVars, parseVars, logged, userSettings>>
  \/ UpdateConfig
       /\ UNCHANGED <<laterVars, subjectVars, memVars, agentVars,
                      tokenVars, parseVars, logged, userSettings>>
  \/ GenerateResponse
       /\ UNCHANGED <<laterVars, subjectVars, memVars, agentVars,
                      tokenVars, parseVars, userSettings>>
  \/ GetConfig
       /\ UNCHANGED <<laterVars, subjectVars, memVars, agentVars,
                      tokenVars, parseVars, logged, userSettings>>
  \/ InitializeAIAgent
       /\ UNCHANGED <<laterVars, subjectVars, memVars, agentVars,
                      tokenVars, parseVars, logged, userSettings>>
  \/ GetStatus
       /\ UNCHANGED <<laterVars, subjectVars, memVars, agentVars,
                      tokenVars, parseVars, logged, userSettings>>

SpecClient == InitClient /\ [][NextClient]_vars

\* the provider clients' request path and the settings store, with what they
\* write to the log
NextLog ==
  \/ Construct
       /\ UNCHANGED <<laterVars, subjectVars, memVars, agentVars,
                      tokenVars, parseVars, logged, userSettings>>
  \/ UpdateApiKey
       /\ UNCHANGED <<laterVars, subjectVars, memVars, agentVars,
                      tokenVars, parseVars, logged, userSettings>>
  \/ GenerateResponse
       /\ UNCHANGED <<laterVars, subjectVars, memVars, agentVars,
                      tokenVars, parseVars, userSettings>>
  \/ TestConnection
       /\ UNCHANGED <<laterVars, subjectVars, memVars, agentVars,
                      tokenVars, parseVars>>
  \/ SaveUserSettings
       /\ UNCHANGED <<laterVars, subjectVars, memVars, agentVars,
                      tokenVars, parseVars>>
  \/ GetUserSettings
       /\ UNCHANGED <<laterVars, subjectVars, memVars, agentVars,
                      tokenVars, parseVars>>

SpecLog == InitClient /\ [][NextLog]_vars

\* prompts on their way to the provider: truncation and sending
NextTokens ==
  \/ NewPrompt
       /\ UNCHANGED <<laterVars, subjectVars, memVars, agentVars,
                      parseVars, provider, constructed,
                              config, fetchedWith, lastThrew, agentConfig,
                              returned, logged, userSettings>>
  \/ TruncatePromptCall
       /\ UNCHANGED <<laterVars, subjectVars, memVars, agentVars,
                      parseVars, provider, constructed, config,
                      fetchedWith, lastThrew, agentConfig, returned, logged,
                      userSettings>>
  \/ TruncateToTokenLimitCall
       /\ UNCHANGED <<laterVars, subjectVars, memVars, agentVars,
                      parseVars, provider, constructed, config,
                      fetchedWith, lastThrew, agentConfig, returned, logged,
                      userSettings>>
  \/ SendPrompt
       /\ UNCHANGED <<laterVars, subjectVars, memVars, agentVars,
                      parseVars, provider, constructed, config,
                      fetchedWith, lastThrew, agentConfig, returned, logged,
                      userSettings>>

SpecTokens == InitClient /\ [][NextTokens]_vars

\* parsing and classifying user input
NextParse ==
  \/ NewInput
       /\ UNCHANGED <<laterVars, subjectVars, memVars, agentVars,
                      tokenVars, provider,
                             constructed, config, fetchedWith, lastThrew,
                             agentConfig, returned, logged, userSettings>>
  \/ ParseUserInputCall
       /\ UNCHANGED <<laterVars, subjectVars, memVars, agentVars,
                      tokenVars, provider, constructed,
                      config, fetchedWith, lastThrew, agentConfig, returned,
                      logged, userSettings>>
  \/ ClassifyCall
       /\ UNCHANGED <<laterVars, subjectVars, memVars, agentVars,
                      tokenVars, provider, constructed,
                      config, fetchedWith, lastThrew, agentConfig, returned,
                      logged, userSettings>>
  \/ ClearInput
       /\ UNCHANGED <<laterVars, subjectVars, memVars, agentVars,
                      tokenVars, provider, constructed,
                      config, fetchedWith, lastThrew, agentConfig, returned,
                      logged, userSettings>>

SpecParse == InitClient /\ [][NextParse]_vars

\* the tools choosing the text they operate on
OutsideSubject == <<laterVars, memVars, agentVars, tokenVars, parseVars,
                    provider, constructed, config, fetchedWith, lastThrew,
                    agentConfig, returned, logged, userSettings>>

NextSubject ==
  \/ NewRequest /\ UNCHANGED OutsideSubject
  \/ SummarizeSubject /\ UNCHANGED OutsideSubject
  \/ RewriteSubject /\ UNCHANGED OutsideSubject
  \/ ExplainSubject /\ UNCHANGED OutsideSubject
  \/ TranslateSubject /\ UNCHANGED OutsideSubject
  \/ FormatSubject /\ UNCHANGED OutsideSubject

SpecSubject == InitClient /\ [][NextSubject]_vars

\* what the clients, the tools' texts and the parts before them hold
earlierVars == <<subjectVars, memVars, agentVars, tokenVars, parseVars,
                 provider, constructed, config, fetchedWith, lastThrew,
                 agentConfig, returned, logged, userSettings>>

\* summaries and their statistics
OutsideRatio == <<contextVars, frameVars, promptVars, extractVars,
                  limitVars, raceVars, earlierVars>>

NextRatio == SummarizeExecute /\ UNCHANGED OutsideRatio

SpecRatio == InitClient /\ [][NextRatio]_vars

\* rendering the log as prompt context
OutsideContext == <<ratioVars, frameVars, promptVars, extractVars,
                    limitVars, raceVars, earlierVars>>

NextContext ==
  \/ StoreResponse /\ UNCHANGED OutsideContext
  \/ GetConversationContext /\ UNCHANGED OutsideContext

SpecContext == InitClient /\ [][NextContext]_vars

OutsideFrame == <<contextVars, ratioVars, promptVars, extractVars,
                  limitVars, raceVars, earlierVars>>

\* the records under stores, imports, clears and reads
NextFrame ==
  \/ StoreRecord /\ UNCHANGED OutsideFrame
  \/ ImportRecords /\ UNCHANGED OutsideFrame
  \/ ClearRecords /\ UNCHANGED OutsideFrame
  \/ ReadRecentInteractions /\ UNCHANGED OutsideFrame
  \/ ReadConversationContext /\ UNCHANGED OutsideFrame
  \/ ReadConversationHistory /\ UNCHANGED OutsideFrame
  \/ SearchHistory /\ UNCHANGED OutsideFrame

SpecFrame == InitClient /\ [][NextFrame]_vars

OutsidePrompt == <<contextVars, ratioVars, frameVars, extractVars,
                   limitVars, raceVars, earlierVars>>

\* the tools building their prompts
NextPrompt ==
  \/ BuildRewrite /\ UNCHANGED OutsidePrompt
  \/ BuildSummarization /\ UNCHANGED OutsidePrompt
  \/ BuildExplanation /\ UNCHANGED OutsidePrompt
  \/ GasBuildSummarization /\ UNCHANGED OutsidePrompt
  \/ GasBuildRewrite /\ UNCHANGED OutsidePrompt

SpecPrompt == InitClient /\ [][NextPrompt]_vars

OutsideExtract == <<contextVars, ratioVars, frameVars, promptVars,
                    limitVars, raceVars, earlierVars>>

\* the parameter extractors
NextExtract ==
  \/ RewriteExtractStyle /\ UNCHANGED OutsideExtract
  \/ RewriteExtractTone /\ UNCHANGED OutsideExtract
  \/ ExtractLengthPreference /\ UNCHANGED OutsideExtract
  \/ SummarizeExtractStyle /\ UNCHANGED OutsideExtract
  \/ SummarizeExtractLength /\ UNCHANGED OutsideExtract
  \/ ExplainExtractStyle /\ UNCHANGED OutsideExtract
  \/ ExtractAudience /\ UNCHANGED OutsideExtract
  \/ ExtractDepth /\ UNCHANGED OutsideExtract
  \/ GasParseStyle /\ UNCHANGED OutsideExtract

SpecExtract == InitClient /\ [][NextExtract]_vars

OutsideLimit == <<contextVars, ratioVars, frameVars, promptVars,
                  extractVars, raceVars, earlierVars>>

\* isWithinTokenLimits
NextLimit == IsWithinTokenLimitsCall /\ UNCHANGED OutsideLimit

SpecLimit == InitClient /\ [][NextLimit]_vars

OutsideRace == <<contextVars, ratioVars, frameVars, promptVars,
                 extractVars, limitVars, earlierVars>>

\* overlapping executions
NextRace ==
  /\ \/ EarlierExecution
     \/ \E e \in Executions : ExecLoadFromStorage(e)
     \/ \E e \in Executions : ProcessRequestStep(e)
     \/ \E e \in Executions : AppendInteraction(e)
     \/ \E e \in Executions : ExecSaveToStorage(e)
  /\ UNCHANGED OutsideRace

SpecRace == InitClient /\ [][NextRace]_vars

(***************************************************************************)
(* Claims about the MemoryManager (checked under SpecMem)                  *)
(***************************************************************************)
\* the age of an entry at clock t
Age(item, t) == t - item.timestamp

C3_AgeCeilingAtAllTimes ==
  \A count \in 0 .. MaxHistoryItems :
    \A i \in DOMAIN GetRecentInteractions(count) :
      Age(GetRecentInteractions(count)[i], now) <= MaxHistoryAge

\* C3 amended: when a storeInteraction, an importHistory or a loadFromStorage
\* that found stored data has just returned (the clock has not advanced since),
\* every entry of the history has age at most maxHistoryAge.
C3_AgeCeilingAfterTrim ==
  lastOp = "trim" =>
    \A i \in DOMAIN conversationHistory :
      Age(conversationHistory[i], now) <= MaxHistoryAge

\* C3 witness: a trimming call has just returned at a time when entries can
\* have expired, and the history keeps an entry exactly at the age ceiling
C3_Witness ==
  /\ lastOp = "trim"
  /\ now > MaxHistoryAge
  /\ \E i \in DOMAIN conversationHistory :
       Age(conversationHistory[i], now) = MaxHistoryAge

\* C4: when trimHistory cuts entries off for the count ceiling it cuts the
\* oldest: every entry that remains is at least as recent as every entry cut.
C4_DiscardsOldestFirst ==
  \A i \in DOMAIN conversationHistory, j \in DOMAIN discarded :
    conversationHistory[i].timestamp >= discarded[j].timestamp

\* C20: in every reachable state conversationHistory is sorted by timestamp,
\* newest first, so that getRecentInteractions(n) returns the n most recent
\* entries, most recent first, after any sequence of storeInteraction and
\* importHistory calls.
C20_HistoryNewestFirst ==
  /\ \A i, j \in DOMAIN conversationHistory :
       i < j => conversationHistory[i].timestamp
                  >= conversationHistory[j].timestamp
  /\ \A n \in 0 .. MaxHistoryItems :
       \A i \in DOMAIN GetRecentInteractions(n),
          j \in DOMAIN conversationHistory :
         j > Len(GetRecentInteractions(n))
           => GetRecentInteractions(n)[i].timestamp
                >= conversationHistory[j].timestamp

(***************************************************************************)
(* Claims about request dispatch (checked under SpecAgent)                 *)
(***************************************************************************)
\* C1: processRequest never lets an exception out, and whenever an exception
\* occurred while it ran (in the context manager, the tool, the API client or
\* the memory manager) the object it returns has success = false and an error
\* message. A FailedResult is what a tool returns after the API client threw.
C1_ExceptionsBecomeFailures ==
  /\ ~escaped
  /\ (response.settled /\ (raised # "none" \/ response.result = FailedResult))
       => (~response.success /\ response.error # "none")

\* C5: each call of a request entry point appends exactly one record: with a
\* memory manager set and the log empty at the start, after k completed calls
\* (k at most maxHistoryItems, the clock standing still) the log holds k
\* records. Only calls that ran to the tool are counted here: the tool
\* returned, the tool threw, or executeTool found no API client.
C5_OneRecordPerDispatch ==
  (/\ pc = "idle"
   /\ hasMemoryManager
   /\ dispatched <= MaxHistoryItems
   /\ raised \in {"none", "tool threw", "API client not configured"})
    => Len(conversationHistory) = dispatched

\* C6: a record is stored only after its request's tool execution finished:
\* no record holds a still-pending response.
C6_StoredAfterCompletion ==
  \A i \in DOMAIN conversationHistory :
    conversationHistory[i].aiResponse # PendingPromise

\* C7: a tool that needs subject text, run with an empty or blank selection
\* and an empty or blank document, returns the 'No text available' failure
\* and calls the provider zero times, whatever the request says.
C7_NoTextNoProviderCall ==
  (/\ pc = "store"
   /\ SelectTool(request.command) \in SubjectTextTools
   /\ request.selection \in {"empty", "blank"}
   /\ request.content \in {"empty", "blank"})
    => (toolResult = NoTextResult /\ apiCalls = 0)

\* C8: in every result of processRequest success and error exclude each
\* other and follow the tool: success = true only when the tool completed
\* successfully, with no error anywhere in the result; a failure the tool
\* reported comes back as success = false carrying that error.
C8_SuccessReflectsTool ==
  response.settled =>
    /\ response.success =>
         (response.result.success # "false" /\ response.result.error = "none"
          /\ response.error = "none")
    /\ ~response.success => response.error # "none"

\* C30: in the gas-ready wiring (initializeAIAgent, then executeCommand with
\* the context manager, the memory manager and the API client set), a
\* dispatch to a registered tool reaches the provider and returns success
\* with one interaction stored; no call of the controller on its managers
\* fails for want of the method.
C30_WiredDispatchSucceeds ==
  [][ ( /\ RegisteredByAll \subseteq tools
        /\ hasContextManager /\ hasMemoryManager /\ hasApiClient
        /\ dispatched' = dispatched + 1
        /\ raised' # "tool not found" )
      => /\ raised' = "none"
         /\ response'.success
         /\ apiCalls' >= 1
         /\ Len(conversationHistory') = Len(conversationHistory) + 1 ]_vars

(***************************************************************************)
(* Claims about the provider clients (checked under SpecClient)            *)
(***************************************************************************)
\* C9: no network request is ever issued with an empty or malformed API key,
\* in any state construction, updateApiKey and updateConfig lead to, calls
\* that threw a validation error included.
C9_NoFetchWithInvalidKey ==
  fetchedWith # <<>> => ValidKey(fetchedWith[1], fetchedWith[2])

\* C10: the API key never appears in a value returned to the caller: not in
\* getConfig(), not in getStatus() or the object initializeAIAgent returns,
\* not in the error string of a failed call.
C10_KeyNeverReturned == returned \cap SecretKeys = {}

\* C27: a rejected configuration update leaves the client unchanged: when
\* updateApiKey or updateConfig throws a validation error the config of the
\* client is the one it had before the call, so the configured key of a
\* constructed client passes validateConfig in every reachable state.
C27_RejectedUpdateLeavesConfig ==
  [][ /\ (constructed /\ lastThrew') => config' = config
      /\ constructed' => ValidKey(provider', config'["apiKey"]) ]_vars

(***************************************************************************)
(* Claims about the log (checked under SpecLog)                            *)
(***************************************************************************)
\* C11: the API key never appears in log output: after generateResponse,
\* makeAPIRequest, testConnection, getUserSettings and saveUserSettings,
\* successful or failed, no argument of console.log / console.error holds the
\* key, neither inside a URL nor inside a settings object.
C11_KeyNeverLogged == logged \cap SecretKeys = {}

(***************************************************************************)
(* Claims about the registry (checked under SpecRegistry)                  *)
(***************************************************************************)
\* C12: tool selection never leaves a request without a tool: a dispatch
\* never fails merely because no tool is registered for the classified
\* command (exact name, else 'general', else the built-in default).
C12_NeverWithoutTool == raised # "tool not found"

\* C13: a registerTool call that throws leaves the registry unchanged, a
\* failing registration during registerAllTools aborts initializeAIAgent
\* (no agent system results), and every entry of the registry has a callable
\* execute.
C13_RegistrationChecked ==
  /\ [](uncallable = {})
  /\ [][regOutcome' \in {"threw", "aborted"}
          => UNCHANGED <<tools, uncallable, hasApiClient, hasMemoryManager,
                         hasContextManager>>]_vars

\* a registration threw while the registry held entries
C13_Witness == regOutcome = "threw" /\ tools # {} /\ uncallable = {}

C15_SentWithinLimits ==
  tokenOp = "send" => IsWithinTokenLimits(sent, options, tokenModel)

\* the input ceiling, in tokens, of the truncation function that ran
InputCeiling ==
  IF tokenOp = "truncatePrompt"
    THEN MaxInputChars(options, tokenModel) \div CharsPerToken
    ELSE EffectiveMaxTokens(options)

\* the truncation function that ran, applied to a prompt
TruncateAgain(p) ==
  IF tokenOp = "truncatePrompt"
    THEN TruncatePrompt(p, options, tokenModel)
    ELSE TruncateToTokenLimit(p, options)

\* C16: truncation (truncatePrompt, truncateToTokenLimit), for every prompt
\* and every maxTokens / reservedTokens setting: a prompt under the token
\* ceiling comes back unchanged; a prompt over it comes back with a strictly
\* smaller estimated token count that is below the ceiling and with exactly
\* one truncation marker appended; truncating the result changes nothing.
C16_TruncationContract ==
  tokenOp \in {"truncatePrompt", "truncateToTokenLimit"} =>
    /\ EstimateTokenCount(prompt) <= InputCeiling => truncated = prompt
    /\ EstimateTokenCount(prompt) > InputCeiling =>
         /\ EstimateTokenCount(truncated) < EstimateTokenCount(prompt)
         /\ EstimateTokenCount(truncated) <= InputCeiling
         /\ truncated.markers = prompt.markers + 1
    /\ TruncateAgain(truncated) = truncated

(***************************************************************************)
(* Claims about parsing and classification (checked under SpecParse)       *)
(***************************************************************************)
\* the first whitespace-delimited token of a text
RECURSIVE FirstToken(_)
FirstToken(text) ==
  IF text = <<>> \/ Head(text) \in Whitespace THEN <<>>
  ELSE <<Head(text)>> \o FirstToken(Tail(text))

\* the text after its first token and the whitespace that follows it
RemainderAfterToken(text) ==
  TrimStart(SubSeq(text, Len(FirstToken(text)) + 1, Len(text)))

\* C17: for every input that starts with the escape prefix '/',
\* parseUserInput returns as command exactly the first whitespace-delimited
\* token after the prefix, whatever whitespace follows it, and the remainder
\* as parameters, without consulting the keyword table.
C17_EscapedCommandIsFirstToken ==
  (parseOp = "parseUserInput" /\ input # <<>> /\ Head(input) = "/") =>
    LET rest == Tail(ToLowerCase(Trim(input)))
    IN  /\ parsed.isExplicitCommand
        /\ parsed.command = FirstToken(rest)
        /\ TrimStart(parsed.parameters) = RemainderAfterToken(rest)

\* the commands of a table's matching entries come no earlier than the result
EarliestMatch(table, default, text, wholeWords, result) ==
  IF \A i \in DOMAIN table : ~EntryMatches(table[i], text, wholeWords)
    THEN result = default
    ELSE \E i \in DOMAIN table :
           /\ table[i].command = result
           /\ EntryMatches(table[i], text, wholeWords)
           /\ \A j \in 1 .. i - 1 : ~EntryMatches(table[j], text, wholeWords)

\* C18: for every non-escaped input each classifier (inferCommand,
\* parseCommand, analyzeQueryType) returns the earliest command of its table
\* that has a keyword or pattern occurring in the lower-cased text, and the
\* default command when none matches.
C18_EarliestTableEntryWins ==
  (parseOp = "classify" /\ (input = <<>> \/ Head(Trim(input) \o <<"x">>) # "/"))
    =>
    LET text == ToLowerCase(Trim(input))
    IN  /\ EarliestMatch(InferKeywords, "general", text, FALSE,
                         classified.inferCommand)
        /\ EarliestMatch(ParsePatterns, "generate", text, FALSE,
                         classified.parseCommand)
        /\ EarliestMatch(QueryPatterns, "content_creation", text, TRUE,
                         classified.analyzeQueryType)

\* a text with keywords of two commands was classified
C18_Witness ==
  /\ parseOp = "classify"
  /\ \E i, j \in DOMAIN input : input[i] = "Explain" /\ input[j] = "summarize"
                                 /\ i < j
  /\ Head(input) # "/"
  /\ classified.inferCommand = "summarize"

(***************************************************************************)
(* Claims about the text a tool operates on (checked under SpecSubject)    *)
(***************************************************************************)
\* C19: whichever tool chose its text, a double-quoted text in the request
\* tail is the text chosen, even when there is a selection; without a quote
\* a non-blank selection is chosen; without either, non-blank document
\* content is chosen.
C19_QuoteThenSelectionThenContent ==
  subjectTool # "none" =>
    /\ HasQuote(tail) => subject = QuotedText
    /\ (~HasQuote(tail) /\ NonBlank(selection)) => subject = selection
    /\ (~HasQuote(tail) /\ ~NonBlank(selection) /\ NonBlank(content))
          => subject = content

(***************************************************************************)
(* Claims about the rendered context (checked under SpecContext)           *)
(***************************************************************************)
\* C21: getConversationContext numbers its lines from 1, oldest of the chosen
\* records first, and the AI part of every line is at most the cap of 100
\* characters plus the ellipsis, whatever the shape of the recorded response.
C21_EverySummaryCapped ==
  contextOp = "context" =>
    \A i \in DOMAIN transcript :
      /\ transcript[i].index = i
      /\ transcript[i].of = Len(transcript) - i + 1
      /\ transcript[i].ai.len <= SummaryCap + MarkerLength
      /\ responses[transcript[i].of].len > SummaryCap => transcript[i].ai.cut

(***************************************************************************)
(* Claims about the summary statistics (checked under SpecRatio)           *)
(***************************************************************************)
\* C22: after a successful summarization metadata.compressionRatio is the
\* word count of the summary divided by the word count of the text
\* summarized, rounded to two decimals.
C22_RatioOfWordCounts ==
  summarized.done =>
    summarized.metadataRatio
      = ToFixed2(GetWordCount(summaryText), GetWordCount(originalText))

(***************************************************************************)
(* Claims about the records of the log (checked under SpecFrame)           *)
(***************************************************************************)
\* C23 as stated: a record keeps its fields for as long as the log holds a
\* record with its id, and the reads change neither the content nor the
\* order of conversationHistory.
C23_SameIdSameFields ==
  [][/\ \A a \in RecordsOf(records), b \in RecordsOf(records') :
          a.id = b.id => a = b
     /\ frameOp' \in FrameReads => records' = records]_vars

\* C23, amended: no operation rewrites a record.  After every operation
\* other than an importHistory whose payload carries an id of the log, each
\* record of the log whose id the log carried before is one of the records
\* it carried before, field for field; the reads change neither the content
\* nor the order of conversationHistory.
C23_NoRecordRewritten ==
  [][/\ frameOp' # "importSameId" =>
          \A b \in RecordsOf(records') :
            b.id \in IdsOf(records) => b \in RecordsOf(records)
     /\ frameOp' \in FrameReads => records' = records]_vars

\* C23 witness: getConversationContext has handed out the reversed copy of a
\* log of two different records, and the log is in its order
C23_Witness ==
  /\ frameOp = "getConversationContext"
  /\ Len(records) = 2
  /\ records[1] # records[2]
  /\ handedOut = Reverse(records)

(***************************************************************************)
(* Claims about the prompts (checked under SpecPrompt)                     *)
(***************************************************************************)
\* the positions of the parts of one kind in the prompt built last
PartsOfKind(kind) == { i \in DOMAIN built : built[i].kind = kind }

\* C24: every prompt a tool builds is, in this order, the preamble, the
\* option descriptions, the subject text in a quote-delimited block, at most
\* one structural-cue sentence and the closing instruction: the subject
\* never precedes an option description and the closing instruction is last.
C24_PromptPartsInOrder ==
  builder # "none" =>
    /\ built[1].kind = "preamble"
    /\ built[Len(built)].kind = "closing"
    /\ Cardinality(PartsOfKind("subject")) = 1
    /\ \A i \in PartsOfKind("subject") : built[i].about = "quoted"
    /\ \A i \in PartsOfKind("subject"), k \in PartsOfKind("option") : k < i
    /\ Cardinality(PartsOfKind("cue")) <= 1
    /\ \A i \in PartsOfKind("subject"), k \in PartsOfKind("cue") : i < k

TypedIn(text, keyword) ==
  \E i \in 1 .. Len(text) - Len(keyword) + 1 :
    /\ SubSeq(text, i, i + Len(keyword) - 1) = keyword
    /\ i = 1 \/ SubSeq(text, i - 1, i - 1) = " "
    /\ i + Len(keyword) - 1 = Len(text)
         \/ SubSeq(text, i + Len(keyword), i + Len(keyword)) = " "

\* the categories of which the user typed a keyword
TypedCategories(tbl, text) ==
  { tbl[i].value : i \in { k \in DOMAIN tbl :
                             \E w \in tbl[k].keywords : TypedIn(text, w) } }

\* C29: a style keyword resolves to its own category: when the listed
\* keywords the user typed all belong to one category, extractStyle returns
\* that category, and it never returns a category (other than the default)
\* of which the user typed no keyword, because a keyword of it occurs inside
\* another word.
C29_KeywordResolvesToOwnCategory ==
  extractor \in {"RewriteExtractStyle", "ExplainExtractStyle", "GasParseStyle"} =>
    LET typed == TypedCategories(Extractors[extractor].tbl, params)
    IN  /\ \A c \in typed : typed = {c} => extracted = c
        /\ extracted # Extractors[extractor].default => extracted \in typed

(***************************************************************************)
(* Claims about isWithinTokenLimits (checked under SpecLimit)              *)
(***************************************************************************)
\* the ceiling as the claim states it
ClaimedCeiling(m) ==
  IF m = "gemini-1.5-flash" THEN 30000
  ELSE IF m \in {"gpt-4", "gpt-4-turbo"} THEN 8192 ELSE 4096

\* ceil(len / 4) + maxTokens <= ceiling, on the characters
WithinFor(len, maxTokens, m) == len <= 4 * (ClaimedCeiling(m) - maxTokens)

\* C26 as stated: isWithinTokenLimits is true exactly when the estimate
\* ceil(length / 4) plus maxTokens is at most the ceiling of the model, with
\* options.maxTokens when it is given and the configured maxTokens otherwise.
C26_WithinExactlyWhenEstimateFits ==
  within = WithinFor(limitCall.len,
                     IF limitCall.options.given THEN limitCall.options.maxTokens
                                                ELSE DefaultMaxTokens,
                     limitCall.model)

\* C26, amended: the same, with options.maxTokens when it is given and not
\* zero, and the configured maxTokens otherwise.
C26_WithinWithNonZeroMaxTokens ==
  within = WithinFor(limitCall.len,
                     IF limitCall.options.given /\ limitCall.options.maxTokens # 0
                       THEN limitCall.options.maxTokens
                       ELSE DefaultMaxTokens,
                     limitCall.model)

\* C26 witness: a prompt one character beyond the last multiple of four
\* that fits, with maxTokens given: the estimate rounds up and the answer
\* is false
C26_Witness ==
  /\ limitCall.options = [given |-> TRUE, maxTokens |-> 26]
  /\ limitCall.model = "gpt-4-turbo"
  /\ limitCall.len = 4 * (8192 - 26) + 1
  /\ within = FALSE

(***************************************************************************)
(* Claims about overlapping executions (checked under SpecRace)            *)
(***************************************************************************)
\* C28: no interaction is lost when requests overlap: when every execution
\* has built its MemoryManager from storage, stored its interaction and
\* saved, the persisted history contains the interaction of each of them,
\* whatever the interleaving of their load, append and save steps.
C28_NoInteractionLost ==
  (\A e \in Executions : execPc[e] = "saved")
    => \A e \in Executions : e \in IdsOf(persisted)

====
